---- MODULE Spec2Model ----
(***************************************************************************)
(* Auditly risk analyzer (lib/analyzer): the four indicator evaluators,   *)
(* the bytecode scanners, the ABI keyword matchers and the penalty        *)
(* aggregation of analyzeContract, as a state machine over one analysis   *)
(* request.  Hex strings and function names are TLA+ strings; the string  *)
(* operations of the source (toLowerCase, replace, includes, startsWith)  *)
(* are computed character by character.                                    *)
(***************************************************************************)
EXTENDS Integers, Sequences, FiniteSets, TLC

\* one call of analyzeContract behind the analyze route
VARIABLES pc, bytecode, explorerInfo, findings, riskScore, summary,
          resolvedKind, holders

\* the HomeClient component: its state, the dependencies its request effect
\* last ran with, and the requests it has started
VARIABLES address, selectedChainValue, analysisMode, analysis, isLoading, error,
          mounted, effectDeps, requests

\* one POST to the contract-code-insights route: where the handler stands, the
\* length of trimmedSource, the calls of callGemini so far, the response
VARIABLES insightsPc, trimmedSourceLength, geminiCalls, insightsResponse

insightVars == <<insightsPc, trimmedSourceLength, geminiCalls, insightsResponse>>

\* one request to analyzeContract with its input: who called and with what,
\* the error thrown, the rounds of network reads awaited, the HTTP status
VARIABLES request, thrown, networkReads, httpStatus

routeVars == <<request, thrown, networkReads, httpStatus>>

analyzerVars == <<pc, bytecode, explorerInfo, findings, riskScore, summary,
                  resolvedKind, holders>>

clientVars == <<address, selectedChainValue, analysisMode, analysis, isLoading, error,
                mounted, effectDeps, requests>>

vars == <<analyzerVars, clientVars, insightVars, routeVars>>

---------------------------------------------------------------------------
(* Bounds of the explored inputs.                                          *)

\* a bytecode is "0x" followed by at most MaxChunks chunks of ChunkVocabulary
MaxChunks == 3

\* an ABI holds at most MaxAbiLen entries of AbiVocabulary
MaxAbiLen == 1

---------------------------------------------------------------------------
(* JavaScript values and string primitives.                                *)

\* null for string-typed values (Hex | null, address | null)
NullStr == "null"

\* null / undefined for object-typed values (Abi | null, ExplorerContractInfo | null)
Null == [kind |-> "null"]

Undefined == [kind |-> "undefined"]

UpperChars == "ABCDEFGHIJKLMNOPQRSTUVWXYZ"

LowerChars == "abcdefghijklmnopqrstuvwxyz"

\* the case mapping of String.prototype.toLowerCase on ASCII letters
LowerMap ==
  [c \in {SubSeq(UpperChars, i, i) : i \in 1..Len(UpperChars)} |->
     LET i == CHOOSE j \in 1..Len(UpperChars) : SubSeq(UpperChars, j, j) = c
     IN  SubSeq(LowerChars, i, i)]

RECURSIVE toLowerCase(_)
toLowerCase(s) ==
  IF s = "" THEN ""
  ELSE LET c == SubSeq(s, 1, 1)
       IN  (IF c \in DOMAIN LowerMap THEN LowerMap[c] ELSE c)
             \o toLowerCase(SubSeq(s, 2, Len(s)))

\* String.prototype.includes: t occurs in s at some offset
\* includes that looks at the start of the string only
includes_atStart(s, t) == Len(t) <= Len(s) /\ SubSeq(s, 1, Len(t)) = t

includes(s, t) ==
  \E i \in 1..(Len(s) - Len(t) + 1) : SubSeq(s, i, i + Len(t) - 1) = t

\* String.prototype.startsWith
\* startsWith searching the whole string, as includes does
startsWith_anywhere(s, t) == includes(s, t)

startsWith(s, t) ==
  Len(t) <= Len(s) /\ SubSeq(s, 1, Len(t)) = t

\* String.prototype.replace with a string pattern: the first occurrence only
replace(s, pat, rep) ==
  IF includes(s, pat)
  THEN LET i == CHOOSE j \in 1..(Len(s) - Len(pat) + 1) :
                  /\ SubSeq(s, j, j + Len(pat) - 1) = pat
                  /\ \A k \in 1..(j - 1) : SubSeq(s, k, k + Len(pat) - 1) # pat
       IN  SubSeq(s, 1, i - 1) \o rep \o SubSeq(s, i + Len(pat), Len(s))
  ELSE s

\* String.prototype.slice(0, n)
sliceStr(s, n) == SubSeq(s, 1, IF n < Len(s) THEN n ELSE Len(s))

\* Array.prototype.slice(0, n)
slice(xs, n) == SubSeq(xs, 1, IF n < Len(xs) THEN n ELSE Len(xs))

\* Array.prototype.join
RECURSIVE join(_, _)
join(xs, sep) ==
  IF xs = <<>> THEN ""
  ELSE IF Len(xs) = 1 THEN xs[1]
  ELSE xs[1] \o sep \o join(Tail(xs), sep)

min(a, b) == IF a < b THEN a ELSE b

max(a, b) == IF a > b THEN a ELSE b

\* truthiness of a string-or-null value: neither null nor the empty string
truthyStr(s) == s # NullStr /\ s # ""

---------------------------------------------------------------------------
(* Static tables.                                                          *)

\* indicatorMetadata with the dangerousFunctions cap mistyped as 50
indicatorMetadata_dangerousMax50 ==
  [verifiedSource |->
     [title |-> "Verified Source", category |-> "Code Security",
      explanation |-> "Verified source code allows anyone to audit and diff the contract.",
      goodMessage |-> "Contract source is verified on the explorer.",
      maxPenalty |-> 30],
   proxy |->
     [title |-> "Proxy / Upgradeable", category |-> "Proxy Security",
      explanation |-> "Upgradeable contracts can change logic after deployment.",
      goodMessage |-> "No proxy pattern detected.",
      maxPenalty |-> 15],
   ownerPrivileges |->
     [title |-> "Owner Privileges", category |-> "Admin Controls",
      explanation |-> "Owner-only functions can change fees, pause transfers or restrict wallets.",
      goodMessage |-> "No high-impact owner-only functions detected.",
      maxPenalty |-> 20],
   dangerousFunctions |->
     [title |-> "Dangerous Functions", category |-> "Red Flags",
      explanation |-> "Functions like mint, burn or emergency withdraw can impact supply or funds.",
      goodMessage |-> "No red-flag functions detected.",
      maxPenalty |-> 50]]

\* indicatorMetadata with the proxy cap lowered to 10
indicatorMetadata_proxyMax10 ==
  [verifiedSource |->
     [title |-> "Verified Source", category |-> "Code Security",
      explanation |-> "Verified source code allows anyone to audit and diff the contract.",
      goodMessage |-> "Contract source is verified on the explorer.",
      maxPenalty |-> 30],
   proxy |->
     [title |-> "Proxy / Upgradeable", category |-> "Proxy Security",
      explanation |-> "Upgradeable contracts can change logic after deployment.",
      goodMessage |-> "No proxy pattern detected.",
      maxPenalty |-> 10],
   ownerPrivileges |->
     [title |-> "Owner Privileges", category |-> "Admin Controls",
      explanation |-> "Owner-only functions can change fees, pause transfers or restrict wallets.",
      goodMessage |-> "No high-impact owner-only functions detected.",
      maxPenalty |-> 20],
   dangerousFunctions |->
     [title |-> "Dangerous Functions", category |-> "Red Flags",
      explanation |-> "Functions like mint, burn or emergency withdraw can impact supply or funds.",
      goodMessage |-> "No red-flag functions detected.",
      maxPenalty |-> 30]]

\* per indicator: title, category, explanation, goodMessage, maxPenalty
indicatorMetadata ==
  [verifiedSource |->
     [title |-> "Verified Source", category |-> "Code Security",
      explanation |-> "Verified source code allows anyone to audit and diff the contract.",
      goodMessage |-> "Contract source is verified on the explorer.",
      maxPenalty |-> 30],
   proxy |->
     [title |-> "Proxy / Upgradeable", category |-> "Proxy Security",
      explanation |-> "Upgradeable contracts can change logic after deployment.",
      goodMessage |-> "No proxy pattern detected.",
      maxPenalty |-> 15],
   ownerPrivileges |->
     [title |-> "Owner Privileges", category |-> "Admin Controls",
      explanation |-> "Owner-only functions can change fees, pause transfers or restrict wallets.",
      goodMessage |-> "No high-impact owner-only functions detected.",
      maxPenalty |-> 20],
   dangerousFunctions |->
     [title |-> "Dangerous Functions", category |-> "Red Flags",
      explanation |-> "Functions like mint, burn or emergency withdraw can impact supply or funds.",
      goodMessage |-> "No red-flag functions detected.",
      maxPenalty |-> 30]]

OWNER_PRIVILEGE_KEYWORDS ==
  <<"settax", "setfee", "setmax", "setlimit", "pause", "unpause", "blacklist", "whitelist">>

\* HIGH_OWNER_PRIVILEGES holding the blacklist keyword alone
HIGH_OWNER_PRIVILEGES_blacklistOnly == <<"blacklist">>

HIGH_OWNER_PRIVILEGES == <<"blacklist", "whitelist">>

DANGEROUS_FUNCTION_KEYWORDS ==
  <<"mint", "burn", "withdraw", "emergencywithdraw", "rug", "swapandliquify", "delegatecall">>

\* The selector table in the order Object.entries enumerates it: the key
\* "39509351" is an integer-like property name, which JavaScript enumerates
\* before the string keys; the others follow in insertion order.
DANGEROUS_SELECTORS ==
  <<
    [selector |-> "39509351", name |-> "increaseAllowance(address,uint256)", risk |-> "medium",
     description |-> "Can increase allowance"],
    [selector |-> "40c10f19", name |-> "mint(address,uint256)", risk |-> "high",
     description |-> "Can create new tokens"],
    [selector |-> "a0712d68", name |-> "mint(uint256)", risk |-> "high",
     description |-> "Can create new tokens"],
    [selector |-> "4e6ec247", name |-> "mint(address,uint256,bytes)", risk |-> "high",
     description |-> "Can create new tokens"],
    [selector |-> "42966c68", name |-> "burn(uint256)", risk |-> "medium",
     description |-> "Can destroy tokens"],
    [selector |-> "9dc29fac", name |-> "burn(address,uint256)", risk |-> "high",
     description |-> "Can burn tokens from any address"],
    [selector |-> "79cc6790", name |-> "burnFrom(address,uint256)", risk |-> "high",
     description |-> "Can burn tokens from any address"],
    [selector |-> "8456cb59", name |-> "pause()", risk |-> "medium",
     description |-> "Can pause all transfers"],
    [selector |-> "3f4ba83a", name |-> "unpause()", risk |-> "medium",
     description |-> "Can control transfer pausing"],
    [selector |-> "5c975abb", name |-> "paused()", risk |-> "medium",
     description |-> "Has pause mechanism"],
    [selector |-> "44337ea1", name |-> "blacklist(address)", risk |-> "high",
     description |-> "Can blacklist addresses"],
    [selector |-> "537df3b6", name |-> "unBlacklist(address)", risk |-> "high",
     description |-> "Has blacklist mechanism"],
    [selector |-> "fe575a87", name |-> "isBlacklisted(address)", risk |-> "medium",
     description |-> "Has blacklist mechanism"],
    [selector |-> "e47d6060", name |-> "isBlackListed(address)", risk |-> "medium",
     description |-> "Has blacklist mechanism"],
    [selector |-> "f2fde38b", name |-> "transferOwnership(address)", risk |-> "medium",
     description |-> "Ownership can be transferred"],
    [selector |-> "715018a6", name |-> "renounceOwnership()", risk |-> "medium",
     description |-> "Has ownership controls"],
    [selector |-> "8da5cb5b", name |-> "owner()", risk |-> "medium",
     description |-> "Has owner role"],
    [selector |-> "3659cfe6", name |-> "upgradeTo(address)", risk |-> "high",
     description |-> "Contract can be upgraded"],
    [selector |-> "4f1ef286", name |-> "upgradeToAndCall(address,bytes)", risk |-> "high",
     description |-> "Contract can be upgraded"],
    [selector |-> "5c60da1b", name |-> "implementation()", risk |-> "medium",
     description |-> "Uses proxy pattern"],
    [selector |-> "f851a440", name |-> "admin()", risk |-> "medium",
     description |-> "Has admin role"],
    [selector |-> "c0246668", name |-> "setFee(address,bool)", risk |-> "medium",
     description |-> "Can modify fees"],
    [selector |-> "8c0b5e22", name |-> "setMaxTxAmount(uint256)", risk |-> "medium",
     description |-> "Can limit transactions"],
    [selector |-> "e01af92c", name |-> "setTaxFee(uint256)", risk |-> "medium",
     description |-> "Can modify tax fees"],
    [selector |-> "db2e21bc", name |-> "emergencyWithdraw()", risk |-> "high",
     description |-> "Emergency fund withdrawal"],
    [selector |-> "5312ea8e", name |-> "emergencyWithdraw(uint256)", risk |-> "high",
     description |-> "Emergency fund withdrawal"],
    [selector |-> "00f714ce", name |-> "withdraw(uint256,address)", risk |-> "high",
     description |-> "Can withdraw funds"],
    [selector |-> "2e1a7d4d", name |-> "withdraw(uint256)", risk |-> "medium",
     description |-> "Can withdraw funds"],
    [selector |-> "51cff8d9", name |-> "withdraw(address)", risk |-> "high",
     description |-> "Can withdraw to any address"],
    [selector |-> "83197ef0", name |-> "destroy()", risk |-> "high",
     description |-> "Can destroy contract"],
    [selector |-> "41c0e1b5", name |-> "kill()", risk |-> "high",
     description |-> "Can destroy contract"],
    [selector |-> "095ea7b3", name |-> "approve(address,uint256)", risk |-> "medium",
     description |-> "Standard approve (check for max uint)"],
    [selector |-> "c9567bf9", name |-> "openTrading()", risk |-> "medium",
     description |-> "Trading can be enabled/disabled"],
    [selector |-> "c49b9a80", name |-> "setSwapAndLiquifyEnabled(bool)", risk |-> "medium",
     description |-> "Can manipulate liquidity"],
    [selector |-> "8ee88c53", name |-> "setMaxWalletSize(uint256)", risk |-> "medium",
     description |-> "Can limit wallet holdings"],
    [selector |-> "5c19a95c", name |-> "delegate(address)", risk |-> "high",
     description |-> "Can delegate to external contract"]
  >>

\* the opcode table, in insertion order
DANGEROUS_OPCODES ==
  <<[opcode |-> "ff", name |-> "SELFDESTRUCT", risk |-> "high",
     description |-> "Contract can be destroyed"],
    [opcode |-> "f4", name |-> "DELEGATECALL", risk |-> "high",
     description |-> "Can execute external code"],
    [opcode |-> "fa", name |-> "STATICCALL", risk |-> "medium",
     description |-> "Makes external calls"],
    [opcode |-> "f2", name |-> "CALLCODE", risk |-> "high",
     description |-> "Deprecated dangerous opcode"]>>

\* DANGEROUS_SELECTORS[sel]?.name ?? sel, as the evidence builders look a selector up
selectorName(sel) ==
  IF \E i \in 1..Len(DANGEROUS_SELECTORS) : DANGEROUS_SELECTORS[i].selector = sel
  THEN LET i == CHOOSE j \in 1..Len(DANGEROUS_SELECTORS) :
                  DANGEROUS_SELECTORS[j].selector = sel
       IN  DANGEROUS_SELECTORS[i].name
  ELSE sel

ZERO_ADDRESS == "0x0000000000000000000000000000000000000000"


---------------------------------------------------------------------------
(* Helpers of the analyzer.                                                *)

\* an Abi value is Null or [kind |-> "list", items |-> <<entry, ...>>],
\* each entry [type |-> ..., name |-> ...]
abiList(items) == [kind |-> "list", items |-> items]

\* lowercased names of the function-type entries
getFunctionNames(abi) ==
  LET fns == SelectSeq(abi.items, LAMBDA item : item.type = "function")
  IN  [i \in 1..Len(fns) |-> toLowerCase(fns[i].name)]

AlnumChars == LowerChars \o UpperChars \o "0123456789"

\* match.replace(/[^a-z0-9]/gi, "")
RECURSIVE stripNonAlnum(_)
stripNonAlnum(s) ==
  IF s = "" THEN ""
  ELSE (IF includes(AlnumChars, SubSeq(s, 1, 1)) THEN SubSeq(s, 1, 1) ELSE "")
         \o stripNonAlnum(SubSeq(s, 2, Len(s)))

\* Array.from(new Set(matches)): first occurrences, in order
RECURSIVE unique(_)
unique(xs) ==
  IF xs = <<>> THEN <<>>
  ELSE LET init == unique(SubSeq(xs, 1, Len(xs) - 1))
           last == xs[Len(xs)]
       IN  IF \E i \in 1..Len(init) : init[i] = last THEN init ELSE Append(init, last)

describeKeywords(matches) ==
  LET firstFour == slice(unique(matches), 4)
  IN  join([i \in 1..Len(firstFour) |-> stripNonAlnum(firstFour[i])], ", ")

\* bytecode ? bytecode.toLowerCase().replace("0x", "") : ""
bytecodeHexOf(bc) ==
  IF truthyStr(bc) THEN replace(toLowerCase(bc), "0x", "") ELSE ""

\* buildFinding that does not copy the evidence into the finding
buildFinding_noEvidence(key, status, detail) ==
  LET metadata == indicatorMetadata[key]
      penalty  == min(detail.penalty, metadata.maxPenalty)
  IN  [key         |-> key,
       title       |-> metadata.title,
       category    |-> metadata.category,
       status      |-> status,
       reason      |-> detail.reason,
       hint        |-> detail.reason,
       penalty     |-> penalty,
       explanation |-> metadata.explanation,
       evidence    |-> Undefined]

\* buildFinding reading the proxy row of the metadata for every key
buildFinding_proxyMetadata(key, status, detail) ==
  LET metadata == indicatorMetadata["proxy"]
      penalty  == min(detail.penalty, metadata.maxPenalty)
  IN  [key         |-> key,
       title       |-> metadata.title,
       category    |-> metadata.category,
       status      |-> status,
       reason      |-> detail.reason,
       hint        |-> detail.reason,
       penalty     |-> penalty,
       explanation |-> metadata.explanation,
       evidence    |-> detail.evidence]

buildFinding(key, status, detail) ==
  LET metadata == indicatorMetadata[key]
      penalty  == min(detail.penalty, metadata.maxPenalty)
  IN  [key         |-> key,
       title       |-> metadata.title,
       category    |-> metadata.category,
       status      |-> status,
       reason      |-> detail.reason,
       hint        |-> detail.reason,
       penalty     |-> penalty,
       explanation |-> metadata.explanation,
       evidence    |-> detail.evidence]

\* scoreToLabel with strict comparisons at the thresholds
scoreToLabel_strict(score) ==
  IF score > 80 THEN "Low"
  ELSE IF score > 50 THEN "Medium"
  ELSE "High"

scoreToLabel(score) ==
  IF score >= 80 THEN "Low"
  ELSE IF score >= 50 THEN "Medium"
  ELSE "High"

\* detectSelectorsInBytecode leaving its loop at the first selector it finds
detectSelectorsInBytecode_firstOnly(bc) ==
  IF ~truthyStr(bc) THEN <<>>
  ELSE LET bytecodeHex == replace(toLowerCase(bc), "0x", "")
           hits == SelectSeq(DANGEROUS_SELECTORS,
                             LAMBDA e : includes(bytecodeHex, toLowerCase(e.selector)))
       IN  [i \in 1..min(1, Len(hits)) |->
              [name |-> hits[i].name, risk |-> hits[i].risk,
               description |-> hits[i].description]]

\* detectSelectorsInBytecode searching the bytecode as given, not lowercased
detectSelectorsInBytecode_caseSensitive(bc) ==
  IF ~truthyStr(bc) THEN <<>>
  ELSE LET bytecodeHex == replace(bc, "0x", "")
           hits == SelectSeq(DANGEROUS_SELECTORS,
                             LAMBDA e : includes(bytecodeHex, toLowerCase(e.selector)))
       IN  [i \in 1..Len(hits) |->
              [name |-> hits[i].name, risk |-> hits[i].risk,
               description |-> hits[i].description]]

\* entries of DANGEROUS_SELECTORS whose selector occurs in the bytecode hex
detectSelectorsInBytecode(bc) ==
  IF ~truthyStr(bc) THEN <<>>
  ELSE LET bytecodeHex == replace(toLowerCase(bc), "0x", "")
           hits == SelectSeq(DANGEROUS_SELECTORS,
                             LAMBDA e : includes(bytecodeHex, toLowerCase(e.selector)))
       IN  [i \in 1..Len(hits) |->
              [name |-> hits[i].name, risk |-> hits[i].risk,
               description |-> hits[i].description]]

\* detectDangerousOpcodes without its DELEGATECALL branch
detectDangerousOpcodes_noDelegatecall(bc) ==
  IF ~truthyStr(bc) THEN <<>>
  ELSE LET bytecodeHex == replace(toLowerCase(bc), "0x", "")
           hits == SelectSeq(DANGEROUS_OPCODES,
                     LAMBDA e :
                       \/ e.opcode = "ff" /\ includes(bytecodeHex, "ff")
                       \/ e.opcode = "f2" /\ includes(bytecodeHex, "f2"))
       IN  [i \in 1..Len(hits) |->
              [name |-> hits[i].name, risk |-> hits[i].risk,
               description |-> hits[i].description]]

\* detectDangerousOpcodes reporting every entry of the table found, fa included
detectDangerousOpcodes_wholeTable(bc) ==
  IF ~truthyStr(bc) THEN <<>>
  ELSE LET bytecodeHex == replace(toLowerCase(bc), "0x", "")
           hits == SelectSeq(DANGEROUS_OPCODES, LAMBDA e : includes(bytecodeHex, e.opcode))
       IN  [i \in 1..Len(hits) |->
              [name |-> hits[i].name, risk |-> hits[i].risk,
               description |-> hits[i].description]]

\* an opcode scan that reports nothing
detectDangerousOpcodes_none(bc) == <<>>

\* entries of DANGEROUS_OPCODES for ff, f4 and f2 whose digits occur in the hex
detectDangerousOpcodes(bc) ==
  IF ~truthyStr(bc) THEN <<>>
  ELSE LET bytecodeHex == replace(toLowerCase(bc), "0x", "")
           hits == SelectSeq(DANGEROUS_OPCODES,
                     LAMBDA e :
                       \/ e.opcode = "ff" /\ includes(bytecodeHex, "ff")
                       \/ e.opcode = "f4" /\ includes(bytecodeHex, "f4")
                       \/ e.opcode = "f2" /\ includes(bytecodeHex, "f2"))
       IN  [i \in 1..Len(hits) |->
              [name |-> hits[i].name, risk |-> hits[i].risk,
               description |-> hits[i].description]]


---------------------------------------------------------------------------
(* The explored inputs.                                                    *)

\* hex chunks a bytecode is assembled from, in the order they are laid out
ChunkVocabulary ==
  <<"0",                     \* one nibble: shifts what follows to an odd offset
    "44337EA1",              \* blacklist(address), upper case
    "8456cb59",              \* pause()
    "42966c68",              \* burn(uint256)
    "5c975abbfa",            \* paused(), then STATICCALL
    "40c10f19",              \* mint(address,uint256)
    "3659cfe6",              \* upgradeTo(address)
    "52d1902d",              \* proxiableUUID()
    "360894a13ba1a321",      \* first 16 digits of the EIP-1967 slot
    "f4">>                   \* DELEGATECALL

RECURSIVE concatChunks(_, _)
concatChunks(S, from) ==
  IF from > Len(ChunkVocabulary) THEN ""
  ELSE (IF from \in S THEN ChunkVocabulary[from] ELSE "") \o concatChunks(S, from + 1)

Bytecodes ==
  {NullStr} \cup
  {"0x" \o concatChunks(S, 1) :
     S \in {T \in SUBSET (1..Len(ChunkVocabulary)) : Cardinality(T) <= MaxChunks}}

\* the bytecodes that consist of one selector of DANGEROUS_SELECTORS each
SelectorBytecodes ==
  {"0x" \o DANGEROUS_SELECTORS[i].selector : i \in 1..Len(DANGEROUS_SELECTORS)}

\* every bytecode some request carries
ScannedBytecodes == Bytecodes \cup SelectorBytecodes

AbiVocabulary ==
  <<[type |-> "function", name |-> "addToWhitelist"],
    [type |-> "function", name |-> "setBlacklist"],
    [type |-> "function", name |-> "Pause"],
    [type |-> "function", name |-> "mintTo"],
    [type |-> "function", name |-> "unwithdrawable"],
    [type |-> "event",    name |-> "Blacklist"]>>

RECURSIVE pickEntries(_, _)
pickEntries(S, from) ==
  IF from > Len(AbiVocabulary) THEN <<>>
  ELSE (IF from \in S THEN <<AbiVocabulary[from]>> ELSE <<>>) \o pickEntries(S, from + 1)

Abis ==
  {Null} \cup
  {abiList(pickEntries(S, 1)) :
     S \in {T \in SUBSET (1..Len(AbiVocabulary)) : Cardinality(T) <= MaxAbiLen}}

ADMIN_ADDRESS == "0x1111111111111111111111111111111111111111"

IMPL_ADDRESS == "0x2222222222222222222222222222222222222222"

\* ExplorerContractInfo | null
ExplorerInfos ==
  {Null} \cup
  [isVerified     : BOOLEAN,
   abi            : Abis,
   proxy          : BOOLEAN,
   implementation : {NullStr, IMPL_ADDRESS},
   proxyAdmin     : {NullStr, ZERO_ADDRESS, ADMIN_ADDRESS}]

---------------------------------------------------------------------------
(* The four indicator evaluators.                                          *)

\* analyzeVerifiedSource asking for the flag and a parsed ABI together
analyzeVerifiedSource_bothRequired(info) ==
  LET metadata     == indicatorMetadata.verifiedSource
      hasParsedAbi == /\ info # Null
                      /\ info.abi # Null
                      /\ info.abi.kind = "list"
                      /\ Len(info.abi.items) > 0
      isVerified   == (info # Null /\ info.isVerified) /\ hasParsedAbi
  IN  IF isVerified
      THEN buildFinding("verifiedSource", "PASS",
             [reason |-> "Contract source is verified on the explorer.",
              penalty |-> 0, evidence |-> Undefined])
      ELSE IF info = Null
      THEN buildFinding("verifiedSource", "WARN",
             [reason |-> "Could not confirm verification status from explorer.",
              penalty |-> 10, evidence |-> Undefined])
      ELSE buildFinding("verifiedSource", "FAIL",
             [reason |-> "Source is not verified; code cannot be audited easily.",
              penalty |-> metadata.maxPenalty, evidence |-> Undefined])


\* analyzeVerifiedSource without its branch for a missing explorer answer
analyzeVerifiedSource_noInconclusive(info) ==
  LET metadata     == indicatorMetadata.verifiedSource
      hasParsedAbi == /\ info # Null
                      /\ info.abi # Null
                      /\ info.abi.kind = "list"
                      /\ Len(info.abi.items) > 0
      isVerified   == (info # Null /\ info.isVerified) \/ hasParsedAbi
  IN  IF isVerified
      THEN buildFinding("verifiedSource", "PASS",
             [reason |-> "Contract source is verified on the explorer.",
              penalty |-> 0, evidence |-> Undefined])
      ELSE buildFinding("verifiedSource", "FAIL",
             [reason |-> "Source is not verified; code cannot be audited easily.",
              penalty |-> metadata.maxPenalty, evidence |-> Undefined])

analyzeVerifiedSource(info) ==
  LET metadata     == indicatorMetadata.verifiedSource
      hasParsedAbi == /\ info # Null
                      /\ info.abi # Null
                      /\ info.abi.kind = "list"
                      /\ Len(info.abi.items) > 0
      isVerified   == (info # Null /\ info.isVerified) \/ hasParsedAbi
  IN  IF isVerified
      THEN buildFinding("verifiedSource", "PASS",
             [reason |-> "Contract source is verified on the explorer.",
              penalty |-> 0, evidence |-> Undefined])
      ELSE IF info = Null
      THEN buildFinding("verifiedSource", "WARN",
             [reason |-> "Could not confirm verification status from explorer.",
              penalty |-> 10, evidence |-> Undefined])
      ELSE buildFinding("verifiedSource", "FAIL",
             [reason |-> "Source is not verified; code cannot be audited easily.",
              penalty |-> metadata.maxPenalty, evidence |-> Undefined])

\* the selector list without the two upgrade selectors
proxySelectors_passiveOnly == <<"5c60da1b", "f851a440", "8f283970", "52d1902d">>

\* the selector list of analyzeProxy; upgradeTo is listed twice in the source
proxySelectors ==
  <<"3659cfe6", "4f1ef286", "5c60da1b", "f851a440", "8f283970", "3659cfe6", "52d1902d">>

eip1967Slot == "360894a13ba1a3210667c828492db98dca3e2076cc3735a920a3ca505d382bbc"

\* detectProxySelectors stopping at the first selector found
detectProxySelectors_firstOnly(bc) ==
  slice(SelectSeq(proxySelectors, LAMBDA sel : includes(bytecodeHexOf(bc), sel)), 1)

\* proxySelectors.filter((sel) => bytecodeHex.includes(sel))
detectProxySelectors(bc) ==
  SelectSeq(proxySelectors, LAMBDA sel : includes(bytecodeHexOf(bc), sel))

\* detectEip1967 looking for the whole slot instead of its first 16 digits
detectEip1967_wholeSlot(bc) == includes(bytecodeHexOf(bc), eip1967Slot)

\* bytecodeHex.includes(eip1967Slot.slice(0, 16))
detectEip1967(bc) == includes(bytecodeHexOf(bc), sliceStr(eip1967Slot, 16))

\* the two scans of analyzeProxy, evaluated once per explored bytecode
proxyScan == [bc \in ScannedBytecodes |->
                [detectedProxySelectors |-> detectProxySelectors(bc),
                 hasEip1967 |-> detectEip1967(bc)]]

analyzeProxy(info, bc) ==
  LET metadata       == indicatorMetadata.proxy
      etherscanProxy == info # Null /\ info.proxy = TRUE
      detectedProxySelectors == proxyScan[bc].detectedProxySelectors
      hasEip1967     == proxyScan[bc].hasEip1967
      bytecodeProxy  == Len(detectedProxySelectors) > 0 \/ hasEip1967
      isProxy        == etherscanProxy \/ bytecodeProxy
      evidence ==
        [etherscanProxy |-> etherscanProxy, bytecodeProxyDetected |-> bytecodeProxy]
        @@ (IF info # Null /\ truthyStr(info.implementation)
            THEN [implementation |-> info.implementation] ELSE <<>>)
        @@ (IF info # Null /\ truthyStr(info.proxyAdmin)
            THEN [admin |-> info.proxyAdmin] ELSE <<>>)
        @@ (IF Len(detectedProxySelectors) > 0
            THEN [proxySelectors |->
                    [i \in 1..Len(detectedProxySelectors) |->
                       selectorName(detectedProxySelectors[i])]]
            ELSE <<>>)
      hasOwner == info # Null /\ truthyStr(info.proxyAdmin)
                    /\ info.proxyAdmin # ZERO_ADDRESS
      hasUpgradeFunction ==
        \E i \in 1..Len(detectedProxySelectors) :
          detectedProxySelectors[i] = "3659cfe6" \/ detectedProxySelectors[i] = "4f1ef286"
  IN  IF ~isProxy
      THEN buildFinding("proxy", "PASS",
             [reason |-> "No proxy pattern detected in Etherscan data or bytecode.",
              penalty |-> 0, evidence |-> Undefined])
      ELSE IF hasUpgradeFunction /\ hasOwner
      THEN buildFinding("proxy", "WARN",
             [reason |-> "Upgradeable proxy with active admin - contract logic can be changed.",
              penalty |-> min(15, metadata.maxPenalty), evidence |-> evidence])
      ELSE IF hasUpgradeFunction
      THEN buildFinding("proxy", "WARN",
             [reason |-> "Upgrade functions detected in bytecode - contract may be upgradeable.",
              penalty |-> 12, evidence |-> evidence])
      ELSE buildFinding("proxy", "WARN",
             [reason |-> IF hasOwner THEN "Proxy detected with active admin."
                         ELSE "Proxy detected, admin appears renounced.",
              penalty |-> IF hasOwner THEN min(12, metadata.maxPenalty) ELSE 5,
              evidence |-> evidence])

ownerSelectors ==
  <<"f2fde38b", "715018a6", "8da5cb5b", "8456cb59", "3f4ba83a", "44337ea1",
    "537df3b6", "c0246668", "8c0b5e22", "e01af92c", "8ee88c53">>

\* highRiskOwnerSelectors having lost the blacklist(address) selector
highRiskOwnerSelectors_noBlacklist == <<"537df3b6">>

highRiskOwnerSelectors == <<"44337ea1", "537df3b6">>

analyzeOwnerPrivileges(abi, bc) ==
  LET metadata      == indicatorMetadata.ownerPrivileges
      functionNames == IF abi # Null THEN getFunctionNames(abi) ELSE <<>>
      keywordMatches ==
        SelectSeq(functionNames, LAMBDA name :
          \E k \in 1..Len(OWNER_PRIVILEGE_KEYWORDS) :
            includes(name, OWNER_PRIVILEGE_KEYWORDS[k]))
      highRiskKeywordMatches ==
        SelectSeq(keywordMatches, LAMBDA name :
          \E k \in 1..Len(HIGH_OWNER_PRIVILEGES) :
            includes(name, HIGH_OWNER_PRIVILEGES[k]))
      bytecodeHex == bytecodeHexOf(bc)
      detectedSelectors ==
        SelectSeq(ownerSelectors, LAMBDA sel : includes(bytecodeHex, sel))
      detectedHighRiskSelectors ==
        SelectSeq(highRiskOwnerSelectors, LAMBDA sel : includes(bytecodeHex, sel))
      evidence ==
        (IF Len(keywordMatches) > 0 THEN [keywordMatches |-> keywordMatches] ELSE <<>>)
        @@ (IF Len(detectedSelectors) > 0
            THEN [detectedSelectors |->
                    [i \in 1..Len(detectedSelectors) |-> selectorName(detectedSelectors[i])]]
            ELSE <<>>)
      hasHighRisk   == Len(highRiskKeywordMatches) > 0 \/ Len(detectedHighRiskSelectors) > 0
      hasMediumRisk == Len(keywordMatches) > 0 \/ Len(detectedSelectors) > 0
      reasons ==
        (IF Len(detectedHighRiskSelectors) > 0
         THEN <<"blacklist/whitelist capability detected in bytecode">> ELSE <<>>)
        \o (IF Len(highRiskKeywordMatches) > 0
            THEN <<"functions: " \o describeKeywords(highRiskKeywordMatches)>> ELSE <<>>)
  IN  IF hasHighRisk
      THEN buildFinding("ownerPrivileges", "WARN",
             [reason |-> "Owner can restrict addresses: " \o join(reasons, "; "),
              penalty |-> min(18, metadata.maxPenalty), evidence |-> evidence])
      ELSE IF hasMediumRisk
      THEN buildFinding("ownerPrivileges", "WARN",
             [reason |-> ToString(max(Len(keywordMatches), Len(detectedSelectors)))
                           \o " admin function(s) detected via bytecode/ABI analysis.",
              penalty |-> 8, evidence |-> evidence])
      ELSE IF abi = Null /\ ~truthyStr(bc)
      THEN buildFinding("ownerPrivileges", "WARN",
             [reason |-> "Cannot inspect owner-only functions because ABI and bytecode unavailable.",
              penalty |-> 10, evidence |-> Undefined])
      ELSE buildFinding("ownerPrivileges", "PASS",
             [reason |-> "No sensitive owner-only functions detected in bytecode or ABI.",
              penalty |-> 0, evidence |-> Undefined])


\* analyzeDangerousFunctions past its first guard: the three detection methods,
\* the evidence and the decision ladder
scanDangerousFunctions(abi, bc) ==
  LET metadata      == indicatorMetadata.dangerousFunctions
      functionNames == IF abi # Null THEN getFunctionNames(abi) ELSE <<>>
      keywordMatches ==
        SelectSeq(functionNames, LAMBDA name :
          \E k \in 1..Len(DANGEROUS_FUNCTION_KEYWORDS) :
            startsWith(name, DANGEROUS_FUNCTION_KEYWORDS[k]))
      selectorFindings    == detectSelectorsInBytecode(bc)
      highRiskSelectors   == SelectSeq(selectorFindings, LAMBDA f : f.risk = "high")
      mediumRiskSelectors == SelectSeq(selectorFindings, LAMBDA f : f.risk = "medium")
      opcodeFindings      == detectDangerousOpcodes(bc)
      highRiskOpcodes     == SelectSeq(opcodeFindings, LAMBDA f : f.risk = "high")
      allHighRisk         == highRiskSelectors \o highRiskOpcodes
      allMediumRisk       == mediumRiskSelectors
      evidence ==
        (IF Len(selectorFindings) > 0
         THEN [detectedFunctions |->
                 [i \in 1..Len(selectorFindings) |->
                    [signature   |-> selectorFindings[i].name,
                     risk        |-> selectorFindings[i].risk,
                     description |-> selectorFindings[i].description]]]
         ELSE <<>>)
        @@ (IF Len(opcodeFindings) > 0
            THEN [dangerousOpcodes |->
                    [i \in 1..Len(opcodeFindings) |->
                       [opcode      |-> opcodeFindings[i].name,
                        risk        |-> opcodeFindings[i].risk,
                        description |-> opcodeFindings[i].description]]]
            ELSE <<>>)
        @@ (IF Len(keywordMatches) > 0 THEN [keywordMatches |-> keywordMatches] ELSE <<>>)
      descriptionsOf(fs) ==
        join([i \in 1..Len(slice(fs, 3)) |-> fs[i].description], "; ")
  IN  IF Len(allHighRisk) >= 2
      THEN buildFinding("dangerousFunctions", "FAIL",
             [reason |-> descriptionsOf(allHighRisk),
              penalty |-> metadata.maxPenalty, evidence |-> evidence])
      ELSE IF Len(allHighRisk) = 1
      THEN buildFinding("dangerousFunctions", "WARN",
             [reason |-> "High-risk capability: " \o allHighRisk[1].description,
              penalty |-> 18, evidence |-> evidence])
      ELSE IF Len(allMediumRisk) >= 3
      THEN buildFinding("dangerousFunctions", "WARN",
             [reason |-> "Multiple admin capabilities: " \o descriptionsOf(allMediumRisk),
              penalty |-> 12, evidence |-> evidence])
      ELSE IF Len(allMediumRisk) > 0 \/ Len(keywordMatches) > 0
      THEN buildFinding("dangerousFunctions", "WARN",
             [reason |-> "Admin capability detected: " \o
                           (IF Len(allMediumRisk) > 0 THEN allMediumRisk[1].description
                            ELSE "Functions: " \o describeKeywords(keywordMatches)),
              penalty |-> 8, evidence |-> evidence])
      ELSE buildFinding("dangerousFunctions", "PASS",
             [reason |-> "No dangerous function selectors or opcodes detected in bytecode.",
              penalty |-> 0, evidence |-> Undefined])

\* analyzeDangerousFunctions without the guard for absent ABI and bytecode
analyzeDangerousFunctions_noGuard(abi, bc, ownerFinding) ==
  scanDangerousFunctions(abi, bc)

\* ownerFinding is accepted and never read
analyzeDangerousFunctions(abi, bc, ownerFinding) ==
  IF abi = Null /\ ~truthyStr(bc)
  THEN buildFinding("dangerousFunctions", "WARN",
         [reason |-> "Bytecode/ABI unavailable, cannot scan for red-flag functions.",
          penalty |-> 12, evidence |-> Undefined])
  ELSE scanDangerousFunctions(abi, bc)

\* analyzeOwnerPrivileges(abi, bytecode), evaluated once per explored (abi, bytecode)
ownerPrivilegesOf ==
  [a \in Abis |-> [bc \in ScannedBytecodes |-> analyzeOwnerPrivileges(a, bc)]]

\* analyzeDangerousFunctions(abi, bytecode, ownerPrivileges), evaluated once per
\* explored (abi, bytecode); its third argument is the finding runFindings passes
dangerousFunctionsOf ==
  [a \in Abis |-> [bc \in ScannedBytecodes |->
     analyzeDangerousFunctions(a, bc, ownerPrivilegesOf[a][bc])]]

\* context.holders, totalSupplyFormatted and isTokenContract are not read
runFindings(context) ==
  LET verifiedSource  == analyzeVerifiedSource(context.explorerInfo)
      proxy           == analyzeProxy(context.explorerInfo, context.bytecode)
      ownerPrivileges == ownerPrivilegesOf[context.abi][context.bytecode]
      dangerousFunctions == dangerousFunctionsOf[context.abi][context.bytecode]
  IN  [verifiedSource     |-> verifiedSource,
       proxy              |-> proxy,
       ownerPrivileges    |-> ownerPrivileges,
       dangerousFunctions |-> dangerousFunctions]

\* scoringIndicators with dangerousFunctions left out of the sum
scoringIndicators_noDangerous == <<"verifiedSource", "proxy", "ownerPrivileges">>

scoringIndicators == <<"verifiedSource", "proxy", "ownerPrivileges", "dangerousFunctions">>

\* scoringIndicators.reduce((sum, key) => sum + (findings[key]?.penalty ?? 0), 0)
RECURSIVE sumPenalties(_, _)
sumPenalties(fs, keys) ==
  IF keys = <<>> THEN 0
  ELSE (IF Head(keys) \in DOMAIN fs THEN fs[Head(keys)].penalty ELSE 0)
         + sumPenalties(fs, Tail(keys))

totalPenaltyOf(fs) == sumPenalties(fs, scoringIndicators)

\* Math.max(0, 100 - totalPenalty) and its label
riskScoreOf(fs) ==
  LET score == max(0, 100 - totalPenaltyOf(fs))
  IN  [score |-> score, label |-> scoreToLabel(score)]

\* Object.values / Object.entries of the findings record, in insertion order
findingKeys == <<"verifiedSource", "proxy", "ownerPrivileges", "dangerousFunctions">>

\* summaryOf returning keyFindings as filtered, without the fallback entry
summaryOf_noFallback(fs, label) ==
  LET notPass == SelectSeq(findingKeys, LAMBDA k : fs[k].status # "PASS")
      pass    == SelectSeq(findingKeys, LAMBDA k : fs[k].status = "PASS")
      keyFindings == [i \in 1..Len(notPass) |-> fs[notPass[i]].reason]
      goodSigns   == [i \in 1..Len(pass) |-> indicatorMetadata[pass[i]].goodMessage]
  IN  [rating      |-> label \o " Risk",
       keyFindings |-> keyFindings,
       goodSigns   |-> IF Len(goodSigns) > 0 THEN goodSigns
                       ELSE <<"Insufficient data for positive signals.">>]

summaryOf(fs, label) ==
  LET notPass == SelectSeq(findingKeys, LAMBDA k : fs[k].status # "PASS")
      pass    == SelectSeq(findingKeys, LAMBDA k : fs[k].status = "PASS")
      keyFindings == [i \in 1..Len(notPass) |-> fs[notPass[i]].reason]
      goodSigns   == [i \in 1..Len(pass) |-> indicatorMetadata[pass[i]].goodMessage]
  IN  [rating      |-> label \o " Risk",
       keyFindings |-> IF Len(keyFindings) > 0 THEN keyFindings
                       ELSE <<"No critical issues detected.">>,
       goodSigns   |-> IF Len(goodSigns) > 0 THEN goodSigns
                       ELSE <<"Insufficient data for positive signals.">>]


---------------------------------------------------------------------------
(* One analysis request: analyzeContract.                                  *)

NoFindings == <<>>

NoScore == [score |-> -1, label |-> "none"]

NoSummary == [rating |-> "none", keyFindings |-> <<>>, goodSigns |-> <<>>]

\* an optional number: null, or the number
None == <<>>

Some(n) == <<n>>

\* summarizeHolders on the holder list analyzeContract passes, which is always
\* empty: holderCount is the override or null, every percentage is null
summarizeHolders(holderCountOverride) ==
  [holderCount |-> holderCountOverride, topHolderPercent |-> None,
   topTenPercent |-> None, deployerPercent |-> None, ownerPercent |-> None]

\* the holders section outside token mode
NoHolders ==
  [holderCount |-> None, topHolderPercent |-> None, topTenPercent |-> None,
   deployerPercent |-> None, ownerPercent |-> None]

\* the request effect of HomeClient has not run yet
NoDeps == <<>>

\* the insights handler has not answered
NoResponse == [status |-> 0]

\* no call of analyzeContract is under way
NoRequest == [via |-> "none"]

\* nothing was thrown
NoError == [name |-> "none"]

\* explorerInfo?.abi ?? null
abiOf(info) == IF info = Null THEN Null ELSE info.abi

Init ==
  /\ pc = "idle"
  /\ bytecode = NullStr
  /\ explorerInfo = Null
  /\ findings = NoFindings
  /\ riskScore = NoScore
  /\ summary = NoSummary
  /\ resolvedKind = "none"
  /\ holders = NoHolders
  /\ address = NullStr
  /\ selectedChainValue = "ethereum"
  /\ analysisMode = "token"
  /\ analysis = Null
  /\ isLoading = FALSE
  /\ error = NullStr
  /\ mounted = TRUE
  /\ effectDeps = NoDeps
  /\ requests = <<>>
  /\ insightsPc = "idle"
  /\ trimmedSourceLength = 0
  /\ geminiCalls = <<>>
  /\ insightsResponse = NoResponse
  /\ request = NoRequest
  /\ thrown = NoError
  /\ networkReads = 0
  /\ httpStatus = 0

\* One call of analyzeContract on a valid address that resolves to contract
\* mode: the awaited reads deliver the snapshot (safeGetBytecode,
\* fetchContractInfo), and the synchronous rest computes the findings, the
\* score, the label and the summary from it.
AnalyzeContract ==
  /\ pc = "idle"
  /\ \E bc \in Bytecodes, info \in ExplorerInfos :
       LET fs == runFindings([bytecode |-> bc, abi |-> abiOf(info),
                              explorerInfo |-> info])
           rs == riskScoreOf(fs)
       IN  /\ bytecode' = bc
           /\ explorerInfo' = info
           /\ findings' = fs
           /\ riskScore' = rs
           /\ summary' = summaryOf(fs, rs.label)
  /\ pc' = "done"
  /\ resolvedKind' = "contract"
  /\ holders' = NoHolders
  /\ UNCHANGED <<clientVars, insightVars, routeVars>>

\* the response is returned; the next request starts from nothing
Return ==
  /\ pc = "done"
  /\ pc' = "idle"
  /\ bytecode' = NullStr
  /\ explorerInfo' = Null
  /\ findings' = NoFindings
  /\ riskScore' = NoScore
  /\ summary' = NoSummary
  /\ resolvedKind' = "none"
  /\ holders' = NoHolders
  /\ UNCHANGED <<clientVars, insightVars, routeVars>>

Next == AnalyzeContract \/ Return

Spec == Init /\ [][Next]_vars


---------------------------------------------------------------------------
(* The evaluators on whatever JSON.parse hands over. safeParseAbi casts    *)
(* the parsed value to Abi without checking it, so the value that reaches  *)
(* the evaluators may be any JSON value.                                   *)

MaxRawAbiLen == 2

\* the exception a property read or a method call on a missing member raises
TypeError == [threw |-> "TypeError"]

\* the members a parsed JSON list may hold here: a named function entry, a
\* function entry without a name, an event entry without a name, and null
RawAbiEntries ==
  {[type |-> "function", name |-> "mintTo"],
   [type |-> "function"],
   [type |-> "event"],
   Null}

\* non-list results of JSON.parse: an object, the numbers 0 and 1, a string
RawNonLists ==
  {[kind |-> "object"], [kind |-> "number", value |-> "0"],
   [kind |-> "number", value |-> "1"], [kind |-> "string", value |-> "abc"]}

\* the values safeParseAbi can deliver: null on a parse error, else the value
RawAbis ==
  {Null} \cup RawNonLists
  \cup UNION {{abiList(items) : items \in [1..n -> RawAbiEntries]} : n \in 0..MaxRawAbiLen}

\* JavaScript truthiness of a parsed value: null and 0 are falsy, lists,
\* objects, non-zero numbers and non-empty strings are truthy
abiTruthy(v) ==
  /\ v # Null
  /\ ~(v.kind = "number" /\ v.value = "0")
  /\ ~(v.kind = "string" /\ v.value = "")

\* abi.filter(item => item.type === "function").map(item => item.name.toLowerCase())
\* raises when abi has no filter method, when an entry is null (item.type),
\* or when a function entry has no name (item.name.toLowerCase)
getFunctionNamesThrows(v) ==
  \/ v.kind # "list"
  \/ \E i \in 1..Len(v.items) :
       \/ v.items[i] = Null
       \/ v.items[i].type = "function" /\ "name" \notin DOMAIN v.items[i]

\* every test the evaluators make of abi itself is a truthiness test, so a
\* falsy value is treated as null is
asAbi(v) == IF abiTruthy(v) THEN v ELSE Null

\* analyzeOwnerPrivileges: functionNames is computed by its first statement
analyzeOwnerPrivilegesRaw(v, bc) ==
  IF abiTruthy(v) /\ getFunctionNamesThrows(v) THEN TypeError
  ELSE analyzeOwnerPrivileges(asAbi(v), bc)

\* analyzeDangerousFunctions: the guard !abi && !bytecode returns first (abi is
\* falsy there, so nothing is read from it), then functionNames is computed
analyzeDangerousFunctionsRaw(v, bc, ownerFinding) ==
  IF abiTruthy(v) /\ getFunctionNamesThrows(v) THEN TypeError
  ELSE analyzeDangerousFunctions(asAbi(v), bc, ownerFinding)

RawBytecodes == {NullStr, "0x", "0x40c10f19"}

\* the two ABI evaluators, evaluated once per explored (abi, bytecode) pair
ownerPrivilegesRawOf ==
  [v \in RawAbis |-> [bc \in RawBytecodes |-> analyzeOwnerPrivilegesRaw(v, bc)]]

dangerousFunctionsRawOf ==
  [v \in RawAbis |-> [bc \in RawBytecodes |->
     analyzeDangerousFunctionsRaw(v, bc, ownerPrivilegesRawOf[v][bc])]]

\* runFindings evaluates in order; an exception leaves it at once
runFindingsRaw(context) ==
  LET verifiedSource  == analyzeVerifiedSource(context.explorerInfo)
      proxy           == analyzeProxy(context.explorerInfo, context.bytecode)
      ownerPrivileges == ownerPrivilegesRawOf[context.abi][context.bytecode]
      dangerousFunctions == dangerousFunctionsRawOf[context.abi][context.bytecode]
  IN  IF ownerPrivileges = TypeError THEN TypeError
      ELSE IF dangerousFunctions = TypeError THEN TypeError
      ELSE [verifiedSource     |-> verifiedSource,
            proxy              |-> proxy,
            ownerPrivileges    |-> ownerPrivileges,
            dangerousFunctions |-> dangerousFunctions]

RawExplorerInfos ==
  {Null} \cup
  [isVerified : BOOLEAN, abi : RawAbis, proxy : BOOLEAN,
   implementation : {NullStr}, proxyAdmin : {NullStr}]

\* the response built from the findings and the score
completed(fs, rs) ==
  [pc |-> "done", findings |-> fs, riskScore |-> rs, summary |-> summaryOf(fs, rs.label),
   resolvedKind |-> "contract"]

\* an exception raised in runFindings is not caught in analyzeContract and
\* rejects the call
outcomeOf(fs) ==
  IF fs = TypeError
  THEN [pc |-> "threw", findings |-> NoFindings, riskScore |-> NoScore,
        summary |-> NoSummary, resolvedKind |-> "none"]
  ELSE completed(fs, riskScoreOf(fs))

\* what one call of analyzeContract computes from its snapshot
analyzeRawOf ==
  [bc \in RawBytecodes |-> [info \in RawExplorerInfos |->
     outcomeOf(runFindingsRaw([bytecode |-> bc, abi |-> abiOf(info),
                               explorerInfo |-> info]))]]

\* One call of analyzeContract whose explorer answer carries any parsed value
\* as ABI.
AnalyzeContractRaw ==
  /\ pc = "idle"
  /\ \E bc \in RawBytecodes, info \in RawExplorerInfos :
       \E r \in {analyzeRawOf[bc][info]} :
         /\ bytecode' = bc
         /\ explorerInfo' = info
         /\ pc' = r.pc
         /\ findings' = r.findings
         /\ riskScore' = r.riskScore
         /\ summary' = r.summary
         /\ resolvedKind' = r.resolvedKind
         /\ holders' = NoHolders
         /\ UNCHANGED <<clientVars, insightVars, routeVars>>

\* the rejected call ends in the route handler; the next request starts anew
Reject ==
  /\ pc = "threw"
  /\ pc' = "idle"
  /\ bytecode' = NullStr
  /\ explorerInfo' = Null
  /\ UNCHANGED <<findings, riskScore, summary, resolvedKind, holders>>
  /\ UNCHANGED <<clientVars, insightVars, routeVars>>

NextRaw == AnalyzeContractRaw \/ Return \/ Reject

SpecRaw == Init /\ [][NextRaw]_vars

---------------------------------------------------------------------------
(* analyzeContract with its mode: the requested kind, the token evidence   *)
(* read from the chain and the holder count of the explorer's token        *)
(* profile.                                                                *)

\* normalizeAddressKind(input.addressType)
AddressKinds == {"auto", "token", "contract"}

TokenBytecodes ==
  {NullStr, "0x", "0x0", "0x8456cb59", "0x40c10f19", "0x3659cfe6", "0x40c10f19f4",
   "0x044337EA1"}

TokenExplorerInfos ==
  {Null,
   [isVerified |-> FALSE, abi |-> Null, proxy |-> FALSE,
    implementation |-> NullStr, proxyAdmin |-> NullStr],
   [isVerified |-> TRUE, abi |-> abiList(<<[type |-> "function", name |-> "mintTo"]>>),
    proxy |-> TRUE, implementation |-> NullStr, proxyAdmin |-> ADMIN_ADDRESS],
   [isVerified |-> TRUE, abi |-> abiList(<<>>), proxy |-> FALSE,
    implementation |-> NullStr, proxyAdmin |-> NullStr]}

\* tokenProfile?.holderCount ?? null
HolderCounts == {None, Some(0), Some(1500)}

TokenRequests ==
  [bytecode : TokenBytecodes, explorerInfo : TokenExplorerInfos,
   requestedKind : AddressKinds, autoTokenEvidence : BOOLEAN,
   holderCount : HolderCounts]

\* the kind a request that is not rejected resolves to
resolveKind(requestedKind, autoTokenEvidence) ==
  IF requestedKind = "auto"
  THEN (IF autoTokenEvidence THEN "token" ELSE "contract")
  ELSE requestedKind

\* the response: score and label, summary, findings, holders section
respond(fs, rs, kind, holderCount) ==
  [pc |-> "done", findings |-> fs, riskScore |-> rs,
   summary |-> summaryOf(fs, rs.label), resolvedKind |-> kind,
   holders |-> IF kind = "token" THEN summarizeHolders(holderCount) ELSE NoHolders]

\* aggregate with a penalty for an unknown holder count added in token mode
aggregate_holdersCounted(fs, kind, holderCount) ==
  respond(fs,
          riskScoreOf([fs EXCEPT !.dangerousFunctions.penalty =
                         @ + (IF kind = "token" /\ holderCount = None THEN 10 ELSE 0)]),
          kind, holderCount)

\* the score is computed from the findings alone
aggregate(fs, kind, holderCount) == respond(fs, riskScoreOf(fs), kind, holderCount)

\* throw new AnalyzerError(..., 400)
rejected ==
  [pc |-> "threw", findings |-> NoFindings, riskScore |-> NoScore,
   summary |-> NoSummary, resolvedKind |-> "none", holders |-> NoHolders]

\* the context runFindings is given; the holder list is always empty
contextOf(bc, info, isTokenContract) ==
  [bytecode |-> bc, abi |-> abiOf(info), explorerInfo |-> info,
   holders |-> <<>>, isTokenContract |-> isTokenContract]

analyzeToken(req) ==
  IF req.requestedKind = "contract" /\ (~truthyStr(req.bytecode) \/ req.bytecode = "0x")
  THEN rejected
  ELSE IF req.requestedKind = "token" /\ ~req.autoTokenEvidence
  THEN rejected
  ELSE aggregate(runFindings(contextOf(req.bytecode, req.explorerInfo,
                   resolveKind(req.requestedKind, req.autoTokenEvidence) = "token")),
                 resolveKind(req.requestedKind, req.autoTokenEvidence),
                 req.holderCount)

analyzeTokenOf == [req \in TokenRequests |-> analyzeToken(req)]

\* One call of analyzeContract with a requested kind.
AnalyzeContractToken ==
  /\ pc = "idle"
  /\ \E req \in TokenRequests :
       \E r \in {analyzeTokenOf[req]} :
         /\ bytecode' = req.bytecode
         /\ explorerInfo' = req.explorerInfo
         /\ pc' = r.pc
         /\ findings' = r.findings
         /\ riskScore' = r.riskScore
         /\ summary' = r.summary
         /\ resolvedKind' = r.resolvedKind
         /\ holders' = r.holders
         /\ UNCHANGED <<clientVars, insightVars, routeVars>>

NextToken == AnalyzeContractToken \/ Return \/ Reject

SpecToken == Init /\ [][NextToken]_vars

---------------------------------------------------------------------------
(* Requests whose bytecode is a single known selector.                     *)

\* explorer answers without an ABI
SelectorExplorerInfos ==
  {Null,
   [isVerified |-> FALSE, abi |-> Null, proxy |-> FALSE,
    implementation |-> NullStr, proxyAdmin |-> ADMIN_ADDRESS],
   [isVerified |-> TRUE, abi |-> Null, proxy |-> TRUE,
    implementation |-> IMPL_ADDRESS, proxyAdmin |-> NullStr]}

\* what one call of analyzeContract computes from its snapshot
analyzeSelectorOf ==
  [bc \in SelectorBytecodes |-> [info \in SelectorExplorerInfos |->
     outcomeOf(runFindings([bytecode |-> bc, abi |-> abiOf(info),
                            explorerInfo |-> info]))]]

\* One call of analyzeContract on a contract whose code is one selector.
AnalyzeContractSelector ==
  /\ pc = "idle"
  /\ \E bc \in SelectorBytecodes, info \in SelectorExplorerInfos :
       \E r \in {analyzeSelectorOf[bc][info]} :
         /\ bytecode' = bc
         /\ explorerInfo' = info
         /\ pc' = r.pc
         /\ findings' = r.findings
         /\ riskScore' = r.riskScore
         /\ summary' = r.summary
         /\ resolvedKind' = r.resolvedKind
         /\ holders' = NoHolders
         /\ UNCHANGED <<clientVars, insightVars, routeVars>>

NextSelector == AnalyzeContractSelector \/ Return

SpecSelector == Init /\ [][NextSelector]_vars

---------------------------------------------------------------------------
(* The HomeClient component and its analysis requests.                     *)

\* the request effect starts at most MaxRequests requests
MaxRequests == 2

\* the addresses AddressSearch submits (always checksummed, never null)
SubmittedAddresses == {"0x1111111111111111111111111111111111111111",
                       "0x2222222222222222222222222222222222222222"}

\* two of the values of CHAIN_OPTIONS
ChainValues == {"ethereum", "base"}

\* the values of ANALYSIS_MODES
AnalysisModes == {"token", "contract"}

\* [address, selectedChainValue, analysisMode], the dependency list of the effect
depsNow == <<address, selectedChainValue, analysisMode>>

\* the payload of a successful response, as far as the client tells responses apart
payloadOf(deps) == [kind |-> "AnalysisResponse", requestedWith |-> deps]

\* err.message of a failed request
errorMessageOf(deps) == "Failed to analyze contract."

\* the cleanup of the effect: cancelled = true; controller.abort()
cleanup(rs) ==
  [i \in 1..Len(rs) |->
     IF i = Len(rs) THEN [rs[i] EXCEPT !.cancelled = TRUE, !.aborted = TRUE] ELSE rs[i]]

\* onSubmit={setAddress}
SetAddress ==
  /\ mounted
  /\ \E a \in SubmittedAddresses :
       /\ a # address
       /\ address' = a
  /\ UNCHANGED <<selectedChainValue, analysisMode, analysis, isLoading, error,
                 mounted, effectDeps, requests>>
  /\ UNCHANGED <<analyzerVars, insightVars, routeVars>>

\* setSelectedChain(option)
SetSelectedChain ==
  /\ mounted
  /\ \E c \in ChainValues :
       /\ c # selectedChainValue
       /\ selectedChainValue' = c
  /\ UNCHANGED <<address, analysisMode, analysis, isLoading, error,
                 mounted, effectDeps, requests>>
  /\ UNCHANGED <<analyzerVars, insightVars, routeVars>>

\* setAnalysisMode(mode.value)
SetAnalysisMode ==
  /\ mounted
  /\ \E m \in AnalysisModes :
       /\ m # analysisMode
       /\ analysisMode' = m
  /\ UNCHANGED <<address, selectedChainValue, analysis, isLoading, error,
                 mounted, effectDeps, requests>>
  /\ UNCHANGED <<analyzerVars, insightVars, routeVars>>

\* The effect runs after a render whose dependencies differ from those of its
\* last run: the cleanup of the last run first, then the body, which returns
\* at once without an address and otherwise starts runAnalysis up to its
\* first await.
RunEffect ==
  /\ mounted
  /\ depsNow # effectDeps
  /\ effectDeps' = depsNow
  /\ IF address = NullStr
     THEN /\ requests' = cleanup(requests)
          /\ UNCHANGED <<isLoading, error>>
     ELSE /\ Len(requests) < MaxRequests
          /\ requests' = Append(cleanup(requests),
                                [deps |-> depsNow, cancelled |-> FALSE,
                                 aborted |-> FALSE, phase |-> "pending",
                                 outcome |-> "none"])
          /\ isLoading' = TRUE
          /\ error' = NullStr
  /\ UNCHANGED <<address, selectedChainValue, analysisMode, analysis, mounted>>
  /\ UNCHANGED <<analyzerVars, insightVars, routeVars>>

\* what the awaited fetch and response.json() of a request can end in
outcomesOf(r) == {"ok", "failed"} \cup (IF r.aborted THEN {"AbortError"} ELSE {})

\* the rest of runAnalysis without the cancelled flag
settle_ignoringCancelled(r, outcome) ==
  IF outcome = "ok"
  THEN [phase |-> "applied", analysis |-> payloadOf(r.deps), error |-> error,
        isLoading |-> FALSE]
  ELSE IF outcome = "AbortError"
  THEN [phase |-> "dropped", analysis |-> analysis, error |-> error,
        isLoading |-> FALSE]
  ELSE [phase |-> "applied", analysis |-> Null, error |-> errorMessageOf(r.deps),
        isLoading |-> FALSE]

\* the rest of runAnalysis once its awaits settle: the try, catch and finally
\* blocks with the cancelled flag of this run of the effect
settle(r, outcome) ==
  IF r.cancelled
  THEN [phase |-> "dropped", analysis |-> analysis, error |-> error,
        isLoading |-> isLoading]
  ELSE IF outcome = "ok"
  THEN [phase |-> "applied", analysis |-> payloadOf(r.deps), error |-> error,
        isLoading |-> FALSE]
  ELSE IF outcome = "AbortError"
  THEN [phase |-> "dropped", analysis |-> analysis, error |-> error,
        isLoading |-> FALSE]
  ELSE [phase |-> "applied", analysis |-> Null, error |-> errorMessageOf(r.deps),
        isLoading |-> FALSE]

\* a pending request settles, in any order with the other requests
Settle ==
  /\ \E i \in 1..Len(requests) :
       /\ requests[i].phase = "pending"
       /\ \E outcome \in outcomesOf(requests[i]) :
            \E s \in {settle(requests[i], outcome)} :
              /\ requests' = [requests EXCEPT ![i].phase = s.phase,
                                              ![i].outcome = outcome]
              /\ analysis' = s.analysis
              /\ error' = s.error
              /\ isLoading' = s.isLoading
  /\ UNCHANGED <<address, selectedChainValue, analysisMode, mounted, effectDeps>>
  /\ UNCHANGED <<analyzerVars, insightVars, routeVars>>

\* the component unmounts: the cleanup of the effect runs
Unmount ==
  /\ mounted
  /\ mounted' = FALSE
  /\ requests' = cleanup(requests)
  /\ UNCHANGED <<address, selectedChainValue, analysisMode, analysis, isLoading,
                 error, effectDeps>>
  /\ UNCHANGED <<analyzerVars, insightVars, routeVars>>

NextClient ==
  SetAddress \/ SetSelectedChain \/ SetAnalysisMode \/ RunEffect \/ Settle \/ Unmount

SpecClient == Init /\ [][NextClient]_vars

---------------------------------------------------------------------------
(* The contract-code-insights route.  Source texts are represented by      *)
(* their lengths: slice and concatenation act on lengths as they act on    *)
(* the strings.                                                            *)

MAX_SOURCE_LENGTH == 8000

\* the length of "\n\n/* ... source truncated for AI processing ... */"
SourceTruncatedSuffixLength == 50

\* the length of "\n\n/* ... truncated ... */"
TruncatedSuffixLength == 25

ShorterSourceLimit == 3000

MinimalSourceLimit == 1500

\* the summary returned when no call succeeded
FALLBACK_SUMMARY ==
  "This is a verified contract. Manual review recommended for detailed security analysis."

\* lengths of cleanSourceCode's result, around the three thresholds
CleanedLengths ==
  {0, 1, 1499, 1500, 1501, 1524, 1525, 1526, 2999, 3000, 3001, 3024, 3025, 3026,
   7999, 8000, 8001, 20000}

\* s.slice(0, n).length
sliceLength(len, n) == IF len < n THEN len ELSE n

\* trimmedSource.length
trimmedLengthOf(cleanedLength) ==
  IF cleanedLength > MAX_SOURCE_LENGTH
  THEN sliceLength(cleanedLength, MAX_SOURCE_LENGTH) + SourceTruncatedSuffixLength
  ELSE cleanedLength

\* shorterSource.length
shorterLengthOf(trimmedLength) ==
  sliceLength(trimmedLength, ShorterSourceLimit) + TruncatedSuffixLength

\* minimalSource.length
minimalLengthOf(trimmedLength) ==
  sliceLength(trimmedLength, MinimalSourceLimit) + TruncatedSuffixLength

\* the non-empty text a successful call returns, told apart by the call
summaryOfCall(n) == <<"summary of attempt 1", "summary of attempt 2", "summary of attempt 3">>[n]

\* the length of the source the call at a position sends
sentLengthAt(position) ==
  IF position = "attempt1" THEN trimmedSourceLength
  ELSE IF position = "attempt2" THEN shorterLengthOf(trimmedSourceLength)
  ELSE minimalLengthOf(trimmedSourceLength)

\* where the handler goes after the call at a position returned
afterCall(position, success) ==
  IF position = "attempt1" /\ ~success /\ trimmedSourceLength > ShorterSourceLimit
  THEN "attempt2"
  ELSE IF position \in {"attempt1", "attempt2"} /\ ~success
          /\ trimmedSourceLength > MinimalSourceLimit
  THEN "attempt3"
  ELSE "respond"

\* POST with GEMINI_API_KEY set and a non-blank sourceCode, up to the first
\* await callGemini(trimmedSource)
InsightsPost ==
  /\ insightsPc = "idle"
  /\ \E cleanedLength \in CleanedLengths :
       trimmedSourceLength' = trimmedLengthOf(cleanedLength)
  /\ insightsPc' = "attempt1"
  /\ geminiCalls' = <<>>
  /\ insightsResponse' = NoResponse
  /\ UNCHANGED <<analyzerVars, clientVars, routeVars>>

\* callGemini returns { summary, success }: success with a non-empty summary,
\* or failure (response not ok, MAX_TOKENS without content, empty text)
GeminiReturns ==
  /\ insightsPc \in {"attempt1", "attempt2", "attempt3"}
  /\ \E success \in BOOLEAN :
       /\ geminiCalls' = Append(geminiCalls,
                                [sent |-> sentLengthAt(insightsPc), success |-> success,
                                 summary |-> IF success
                                             THEN summaryOfCall(Len(geminiCalls) + 1)
                                             ELSE ""])
       /\ insightsPc' = afterCall(insightsPc, success)
  /\ UNCHANGED <<trimmedSourceLength, insightsResponse>>
  /\ UNCHANGED <<analyzerVars, clientVars, routeVars>>

\* fetch or response.json() inside callGemini rejects: the handler's catch
\* answers 500
GeminiThrows ==
  /\ insightsPc \in {"attempt1", "attempt2", "attempt3"}
  /\ geminiCalls' = Append(geminiCalls,
                           [sent |-> sentLengthAt(insightsPc), success |-> FALSE,
                            summary |-> ""])
  /\ insightsPc' = "responded"
  /\ insightsResponse' = [status |-> 500, error |-> "Failed to analyze contract code."]
  /\ UNCHANGED trimmedSourceLength
  /\ UNCHANGED <<analyzerVars, clientVars, routeVars>>

\* the final fallback and NextResponse.json({ summary })
InsightsRespond ==
  /\ insightsPc = "respond"
  /\ \E result \in {geminiCalls[Len(geminiCalls)]} :
       insightsResponse' =
         [status |-> 200,
          summary |-> IF result.success THEN result.summary ELSE FALLBACK_SUMMARY]
  /\ insightsPc' = "responded"
  /\ UNCHANGED <<trimmedSourceLength, geminiCalls>>
  /\ UNCHANGED <<analyzerVars, clientVars, routeVars>>

\* the response is sent; the next request starts from nothing
InsightsDone ==
  /\ insightsPc = "responded"
  /\ insightsPc' = "idle"
  /\ trimmedSourceLength' = 0
  /\ geminiCalls' = <<>>
  /\ insightsResponse' = NoResponse
  /\ UNCHANGED <<analyzerVars, clientVars, routeVars>>

NextInsights ==
  InsightsPost \/ GeminiReturns \/ GeminiThrows \/ InsightsRespond \/ InsightsDone

SpecInsights == Init /\ [][NextInsights]_vars

---------------------------------------------------------------------------
(* analyzeContract from its input on: validation, the network reads, the   *)
(* resolution of the kind, and the analyze route around it.                *)

\* chain names a caller may pass; "" stands for a missing one
ChainNames == {"", "ethereum", "ETH", "Base", "solana"}

\* addresses a caller may pass; "" stands for a missing one
AddressInputs == {"", "0x123", "0x1111111111111111111111111111111111111111"}

\* addressType values a caller may pass; NullStr stands for an absent one
AddressTypeInputs == {NullStr, "token", "Contract", "nft"}

\* isAddress of viem on a lower-case string: 0x and forty hex digits
isAddress(a) ==
  /\ Len(a) = 42
  /\ SubSeq(a, 1, 2) = "0x"
  /\ \A i \in 3..42 :
       SubSeq(a, i, i) \in {"0", "1", "2", "3", "4", "5", "6", "7",
                           "8", "9", "a", "b", "c", "d", "e", "f"}

\* null is NullStr
normalizeChain(chain) ==
  IF ~truthyStr(chain) THEN "ethereum"
  ELSE LET normalized == toLowerCase(chain)
       IN  IF normalized = "eth" \/ normalized = "ethereum" THEN "ethereum"
           ELSE IF normalized = "base" THEN "base"
           ELSE IF normalized = "polygon" \/ normalized = "matic" THEN "polygon"
           ELSE IF normalized = "bsc" \/ normalized = "bnb" THEN "bsc"
           ELSE IF normalized = "scroll" THEN "scroll"
           ELSE IF normalized = "arbitrum" THEN "arbitrum"
           ELSE NullStr

normalizeAddressKind(value) ==
  IF ~truthyStr(value) THEN "auto"
  ELSE LET normalized == toLowerCase(value)
       IN  IF normalized = "token" THEN "token"
           ELSE IF normalized = "contract" THEN "contract"
           ELSE "auto"

AnalyzerError(message, statusCode) ==
  [name |-> "AnalyzerError", message |-> message, statusCode |-> statusCode]

isAnalyzerError(e) == e.name = "AnalyzerError"

\* what the awaited reads deliver, and whether the explorer API key is set
NetworkReads ==
  [bytecode : {NullStr, "0x", "0x40c10f19"},
   name : {NullStr, "", "Token"},
   symbol : {NullStr, "TKN"},
   decimals : {None, Some(0), Some(2)},
   totalSupply : {None, Some(1000)},
   profileTotalSupply : {NullStr, "1000"},
   explorerInfo : {Null},
   explorerApiKey : BOOLEAN]

\* value.toString() of a non-negative bigint
RECURSIVE toString(_)
toString(n) ==
  LET digits == <<"0", "1", "2", "3", "4", "5", "6", "7", "8", "9">>
  IN  IF n < 10 THEN digits[n + 1]
      ELSE toString(n \div 10) \o digits[(n % 10) + 1]

\* display.padStart(decimals, "0")
RECURSIVE padStart(_, _)
padStart(display, length) ==
  IF Len(display) >= length THEN display ELSE padStart("0" \o display, length)

\* fraction.replace(/(0+)$/, "")
RECURSIVE stripTrailingZeros(_)
stripTrailingZeros(fraction) ==
  IF fraction # "" /\ SubSeq(fraction, Len(fraction), Len(fraction)) = "0"
  THEN stripTrailingZeros(SubSeq(fraction, 1, Len(fraction) - 1))
  ELSE fraction

\* formatUnits of viem on a non-negative value
formatUnits(value, decimals) ==
  LET display  == padStart(toString(value), decimals)
      integer  == SubSeq(display, 1, Len(display) - decimals)
      fraction == stripTrailingZeros(SubSeq(display, Len(display) - decimals + 1, Len(display)))
  IN  (IF integer = "" THEN "0" ELSE integer)
      \o (IF fraction = "" THEN "" ELSE "." \o fraction)

\* null is NullStr
totalSupplyFormattedOf(reads) ==
  IF reads.totalSupply # None /\ reads.decimals # None
  THEN formatUnits(reads.totalSupply[1], reads.decimals[1])
  ELSE NullStr

autoTokenEvidenceOf(reads) ==
  \/ truthyStr(reads.profileTotalSupply)
  \/ reads.decimals # None
  \/ truthyStr(reads.symbol)
  \/ truthyStr(reads.name)
  \/ truthyStr(totalSupplyFormattedOf(reads))

\* the rejection of a call: nothing is returned
throws(e, rounds) ==
  [pc |-> "threw", findings |-> NoFindings, riskScore |-> NoScore,
   summary |-> NoSummary, resolvedKind |-> "none", holders |-> NoHolders,
   thrown |-> e, networkReads |-> rounds]

\* the response of a call that ran to its end
returns(response) ==
  [pc |-> response.pc, findings |-> response.findings, riskScore |-> response.riskScore,
   summary |-> response.summary, resolvedKind |-> response.resolvedKind,
   holders |-> response.holders, thrown |-> NoError, networkReads |-> 2]

\* analyzeContract(input) with what its reads deliver
analyzeInput(input, reads) ==
  LET chainKey      == normalizeChain(input.chain)
      requestedKind == normalizeAddressKind(input.addressType)
      autoTokenEvidence == autoTokenEvidenceOf(reads)
  IN  IF chainKey = NullStr
      THEN throws(AnalyzerError("Unsupported chain", 400), 0)
      ELSE IF ~truthyStr(input.address) \/ ~isAddress(input.address)
      THEN throws(AnalyzerError("Invalid or missing address", 400), 0)
      ELSE IF ~reads.explorerApiKey
      THEN throws(AnalyzerError("Explorer API key missing", 500), 0)
      ELSE IF requestedKind = "contract"
              /\ (~truthyStr(reads.bytecode) \/ reads.bytecode = "0x")
      THEN throws(AnalyzerError("This address does not contain contract bytecode. Enter a deployed contract address.", 400), 1)
      ELSE IF requestedKind = "token" /\ ~autoTokenEvidence
      THEN throws(AnalyzerError("Check the address network or switch to contract mode to continue.", 400), 2)
      ELSE returns(aggregate(
             runFindings(contextOf(reads.bytecode, reads.explorerInfo,
                                   resolveKind(requestedKind, autoTokenEvidence) = "token")),
             resolveKind(requestedKind, autoTokenEvidence), None))

\* the inputs of a direct call of the exported analyzeContract
AnalyzeInputs ==
  [chain : ChainNames, address : AddressInputs, addressType : AddressTypeInputs]

\* the JSON bodies the route is posted: chain and address as strings or as
\* something else, an addressType the route does not read, or no JSON at all
\* each field is a JSON value with its typeof
RequestBodies ==
  [parses : {TRUE},
   chain : {[typeof |-> "string", value |-> c] : c \in ChainNames}
             \cup {[typeof |-> "undefined"]},
   address : {[typeof |-> "string", value |-> a] : a \in AddressInputs}
               \cup {[typeof |-> "undefined"]},
   addressType : {[typeof |-> "undefined"], [typeof |-> "string", value |-> "contract"]}]
  \cup {[parses |-> FALSE]}

\* the input POST hands to analyzeContract: { chain, address }
inputOfBody(body) ==
  [chain |-> IF body.chain.typeof = "string" THEN body.chain.value ELSE "ethereum",
   address |-> IF body.address.typeof = "string" THEN body.address.value ELSE "",
   addressType |-> NullStr]

analyzeInputOf ==
  [input \in AnalyzeInputs |-> [reads \in NetworkReads |-> analyzeInput(input, reads)]]

\* what POST's try block ends in before it answers
postOutcomeOf ==
  [body \in RequestBodies |-> [reads \in NetworkReads |->
     IF ~body.parses THEN throws([name |-> "SyntaxError"], 0)
     ELSE analyzeInputOf[inputOfBody(body)][reads]]]

\* analyzeContract is called directly with an input
CallAnalyze ==
  /\ pc = "idle"
  /\ \E input \in AnalyzeInputs, reads \in NetworkReads :
       \E r \in {analyzeInputOf[input][reads]} :
         /\ request' = [via |-> "call", input |-> input, reads |-> reads]
         /\ bytecode' = IF r.networkReads > 0 THEN reads.bytecode ELSE NullStr
         /\ explorerInfo' = IF r.networkReads > 1 THEN reads.explorerInfo ELSE Null
         /\ pc' = r.pc
         /\ findings' = r.findings
         /\ riskScore' = r.riskScore
         /\ summary' = r.summary
         /\ resolvedKind' = r.resolvedKind
         /\ holders' = r.holders
         /\ thrown' = r.thrown
         /\ networkReads' = r.networkReads
  /\ httpStatus' = 0
  /\ UNCHANGED <<clientVars, insightVars>>

\* POST /api/analyze up to the end of its try block
PostAnalyze ==
  /\ pc = "idle"
  /\ \E body \in RequestBodies, reads \in NetworkReads :
       \E r \in {postOutcomeOf[body][reads]} :
         /\ request' = [via |-> "POST", body |-> body, reads |-> reads]
         /\ bytecode' = IF r.networkReads > 0 THEN reads.bytecode ELSE NullStr
         /\ explorerInfo' = IF r.networkReads > 1 THEN reads.explorerInfo ELSE Null
         /\ pc' = r.pc
         /\ findings' = r.findings
         /\ riskScore' = r.riskScore
         /\ summary' = r.summary
         /\ resolvedKind' = r.resolvedKind
         /\ holders' = r.holders
         /\ thrown' = r.thrown
         /\ networkReads' = r.networkReads
  /\ httpStatus' = 0
  /\ UNCHANGED <<clientVars, insightVars>>

\* return NextResponse.json(result)
RouteReturn ==
  /\ pc = "done"
  /\ request.via = "POST"
  /\ httpStatus' = 200
  /\ pc' = "responded"
  /\ UNCHANGED <<bytecode, explorerInfo, findings, riskScore, summary, resolvedKind,
                 holders, request, thrown, networkReads>>
  /\ UNCHANGED <<clientVars, insightVars>>

\* a variant of the catch block that answers 500 whatever was thrown
RouteCatch_always500 ==
  /\ pc = "threw"
  /\ request.via = "POST"
  /\ httpStatus' = 500
  /\ pc' = "responded"
  /\ UNCHANGED <<bytecode, explorerInfo, findings, riskScore, summary, resolvedKind,
                 holders, request, thrown, networkReads>>
  /\ UNCHANGED <<clientVars, insightVars>>

\* the catch block of POST
RouteCatch ==
  /\ pc = "threw"
  /\ request.via = "POST"
  /\ httpStatus' = IF isAnalyzerError(thrown) THEN thrown.statusCode ELSE 500
  /\ pc' = "responded"
  /\ UNCHANGED <<bytecode, explorerInfo, findings, riskScore, summary, resolvedKind,
                 holders, request, thrown, networkReads>>
  /\ UNCHANGED <<clientVars, insightVars>>

\* the caller has its answer; the next request starts from nothing
Finish ==
  /\ \/ pc = "responded"
     \/ pc \in {"done", "threw"} /\ request.via = "call"
  /\ pc' = "idle"
  /\ bytecode' = NullStr
  /\ explorerInfo' = Null
  /\ findings' = NoFindings
  /\ riskScore' = NoScore
  /\ summary' = NoSummary
  /\ resolvedKind' = "none"
  /\ holders' = NoHolders
  /\ request' = NoRequest
  /\ thrown' = NoError
  /\ networkReads' = 0
  /\ httpStatus' = 0
  /\ UNCHANGED <<clientVars, insightVars>>

NextRoute == CallAnalyze \/ PostAnalyze \/ RouteReturn \/ RouteCatch \/ Finish

SpecRoute == Init /\ [][NextRoute]_vars

---------------------------------------------------------------------------
(* Properties.                                                             *)

\* the ABI the evaluators of the current request were given
abi == abiOf(explorerInfo)

IndicatorKeys == {"verifiedSource", "proxy", "ownerPrivileges", "dangerousFunctions"}

\* the caps the specification states, per indicator
StatedMaxPenalty ==
  [verifiedSource |-> 30, proxy |-> 15, ownerPrivileges |-> 20, dangerousFunctions |-> 30]

clamp(x, lo, hi) == IF x < lo THEN lo ELSE IF x > hi THEN hi ELSE x

\* C1: every Finding of runFindings has an integer penalty between 0 and the
\* maxPenalty of its indicator: 30, 15, 20, 30.
C1_PenaltyWithinMax ==
  pc = "done" =>
    /\ DOMAIN findings = IndicatorKeys
    /\ \A k \in IndicatorKeys :
         /\ findings[k].penalty \in Int
         /\ 0 <= findings[k].penalty
         /\ findings[k].penalty <= StatedMaxPenalty[k]
         /\ indicatorMetadata[k].maxPenalty = StatedMaxPenalty[k]

\* an analysis in which verifiedSource, proxy and dangerousFunctions sit at their caps
C1_Witness ==
  /\ pc = "done"
  /\ findings.verifiedSource.penalty = 30
  /\ findings.proxy.penalty = 15
  /\ findings.ownerPrivileges.penalty = 18
  /\ findings.dangerousFunctions.penalty = 30

\* C2: the returned score is clamp(100 - sum of the four penalties, 0, 100),
\* an integer of 0..100.
C2_ScoreIsClampedSum ==
  pc = "done" =>
    /\ riskScore.score \in 0..100
    /\ riskScore.score =
         clamp(100 - (findings.verifiedSource.penalty + findings.proxy.penalty
                      + findings.ownerPrivileges.penalty
                      + findings.dangerousFunctions.penalty), 0, 100)

\* an analysis in which each of the four indicators contributes a penalty
C2_Witness ==
  /\ pc = "done"
  /\ \A k \in IndicatorKeys : findings[k].penalty > 0
  /\ riskScore.score = 100 - (30 + 5 + 8 + 18)

\* C3: the label depends on the score alone: Low iff score >= 80, Medium iff
\* 50 <= score <= 79, High iff score <= 49; 80 and 50 map to Low and Medium,
\* 79 and 49 to Medium and High.
C3_LabelThresholds ==
  /\ pc = "done" =>
       /\ (riskScore.label = "Low")    <=> (riskScore.score >= 80)
       /\ (riskScore.label = "Medium") <=> (50 <= riskScore.score /\ riskScore.score <= 79)
       /\ (riskScore.label = "High")   <=> (riskScore.score <= 49)
       /\ summary.rating = riskScore.label \o " Risk"
  /\ \A sc \in 0..100 :
       scoreToLabel(sc) = IF sc >= 80 THEN "Low" ELSE IF sc >= 50 THEN "Medium" ELSE "High"

\* an analysis that ends on a threshold: score 80, labelled Low
C3_Witness ==
  /\ pc = "done"
  /\ riskScore.score = 80
  /\ riskScore.label = "Low"


\* What the claims count in a bytecode: the selectors of the dangerous-selector
\* table and the opcode markers that occur in its lowercased hex.
selectorsFound(bc, risk) ==
  {i \in 1..Len(DANGEROUS_SELECTORS) :
     /\ DANGEROUS_SELECTORS[i].risk = risk
     /\ includes(bytecodeHexOf(bc), DANGEROUS_SELECTORS[i].selector)}

opcodeMarkersFound(bc) == {op \in {"ff", "f4", "f2"} : includes(bytecodeHexOf(bc), op)}

signalsOf ==
  [bc \in Bytecodes |->
     [high   |-> Cardinality(selectorsFound(bc, "high")) + Cardinality(opcodeMarkersFound(bc)),
      medium |-> Cardinality(selectorsFound(bc, "medium"))]]

\* some function-type entry's lowercased name starts with a dangerous keyword
dangerousKeywordMatch ==
  [a \in Abis |->
     /\ a # Null
     /\ \E i \in 1..Len(a.items) :
          /\ a.items[i].type = "function"
          /\ \E k \in 1..Len(DANGEROUS_FUNCTION_KEYWORDS) :
               startsWith(toLowerCase(a.items[i].name), DANGEROUS_FUNCTION_KEYWORDS[k])]

bothAbsent == abi = Null /\ bytecode = NullStr

isFinding(f, status, penalty) == f.status = status /\ f.penalty = penalty

\* C4: DangerousFunctions, abi and bytecode not both absent: two or more
\* High-risk signals (High selectors plus opcode markers found in the bytecode)
\* give Fail with penalty 30, exactly one gives Warn with penalty 18, whatever
\* Medium selectors or keyword matches are present.
C4_HighRiskLadder ==
  (pc = "done" /\ ~bothAbsent) =>
    /\ signalsOf[bytecode].high >= 2 =>
         isFinding(findings.dangerousFunctions, "FAIL", 30)
    /\ signalsOf[bytecode].high = 1 =>
         isFinding(findings.dangerousFunctions, "WARN", 18)

\* a mint selector and the DELEGATECALL marker, beside a Medium selector and a
\* keyword match
C4_Witness ==
  /\ pc = "done"
  /\ signalsOf[bytecode].high = 2
  /\ signalsOf[bytecode].medium >= 1
  /\ dangerousKeywordMatch[abi]
  /\ isFinding(findings.dangerousFunctions, "FAIL", 30)

\* C5: DangerousFunctions, abi and bytecode not both absent, no High-risk
\* signal: three or more Medium selectors give Warn 12; one or two Medium
\* selectors, or a keyword match with no selector and no opcode, give Warn 8;
\* no selector, no opcode and no keyword match gives Pass 0.
C5_MediumRiskLadder ==
  (pc = "done" /\ ~bothAbsent /\ signalsOf[bytecode].high = 0) =>
    /\ signalsOf[bytecode].medium >= 3 =>
         isFinding(findings.dangerousFunctions, "WARN", 12)
    /\ (\/ signalsOf[bytecode].medium \in {1, 2}
        \/ signalsOf[bytecode].medium = 0 /\ dangerousKeywordMatch[abi]) =>
         isFinding(findings.dangerousFunctions, "WARN", 8)
    /\ (signalsOf[bytecode].medium = 0 /\ ~dangerousKeywordMatch[abi]) =>
         isFinding(findings.dangerousFunctions, "PASS", 0)

\* three Medium selectors and nothing High
C5_Witness ==
  /\ pc = "done"
  /\ signalsOf[bytecode].high = 0
  /\ signalsOf[bytecode].medium = 3
  /\ isFinding(findings.dangerousFunctions, "WARN", 12)

\* C6: bytecode null and abi null: DangerousFunctions is Warn with penalty 12,
\* whatever explorerInfo is and whatever finding is passed as ownerFinding.
C6_BothAbsentIsWarn12 ==
  (pc = "done" /\ bytecode = NullStr /\ abi = Null) =>
    /\ isFinding(findings.dangerousFunctions, "WARN", 12)
    /\ \A k \in IndicatorKeys :
         analyzeDangerousFunctions(Null, NullStr, findings[k]) = findings.dangerousFunctions
    /\ analyzeDangerousFunctions(Null, NullStr, Undefined) = findings.dangerousFunctions

\* both absent while the explorer did answer
C6_Witness ==
  /\ pc = "done"
  /\ bytecode = NullStr
  /\ explorerInfo # Null
  /\ abi = Null
  /\ isFinding(findings.dangerousFunctions, "WARN", 12)


\* What the OwnerPrivileges claims speak of: the lowercased names of the ABI's
\* function entries and the lowercased bytecode.
functionNameSet(a) ==
  IF a = Null THEN {}
  ELSE {toLowerCase(a.items[i].name) :
          i \in {j \in 1..Len(a.items) : a.items[j].type = "function"}}

nameContains(a, words) == \E n \in functionNameSet(a) : \E w \in words : includes(n, w)

bytecodeContains(bc, sels) ==
  bc # NullStr /\ \E sel \in sels : includes(toLowerCase(bc), sel)

seqRange(xs) == {xs[i] : i \in 1..Len(xs)}

blacklistSelectors == {"44337ea1", "537df3b6"}

ownerAbiSignals ==
  [a \in Abis |->
     [any       |-> nameContains(a, seqRange(OWNER_PRIVILEGE_KEYWORDS)),
      blacklist |-> nameContains(a, {"blacklist"}),
      whitelist |-> nameContains(a, {"whitelist"})]]

ownerBytecodeSignals ==
  [bc \in Bytecodes |->
     [any       |-> bytecodeContains(bc, seqRange(ownerSelectors)),
      blacklist |-> bytecodeContains(bc, blacklistSelectors)]]

ownerHighSignal ==
  \/ ownerAbiSignals[abi].blacklist
  \/ ownerAbiSignals[abi].whitelist
  \/ ownerBytecodeSignals[bytecode].blacklist

ownerAnySignal == ownerAbiSignals[abi].any \/ ownerBytecodeSignals[bytecode].any

\* C7: OwnerPrivileges decides in order: a high-risk signal from the ABI names
\* or the bytecode selectors gives Warn 18; else any owner keyword or owner
\* selector match gives Warn 8; else abi and bytecode both null gives Warn 10;
\* else Pass 0. A bytecode containing 44337ea1 in any letter case at any
\* offset, with abi null, gives Warn 18.
C7_OwnerPrivilegesDecision ==
  pc = "done" =>
    /\ findings.ownerPrivileges.penalty =
         IF ownerHighSignal THEN 18
         ELSE IF ownerAnySignal THEN 8
         ELSE IF bothAbsent THEN 10
         ELSE 0
    /\ findings.ownerPrivileges.status =
         (IF ownerHighSignal \/ ownerAnySignal \/ bothAbsent THEN "WARN" ELSE "PASS")
    /\ (abi = Null /\ bytecodeContains(bytecode, {"44337ea1"})) =>
         isFinding(findings.ownerPrivileges, "WARN", 18)

\* the blacklist selector in upper case at an odd offset, with abi null
C7_Witness ==
  /\ pc = "done"
  /\ abi = Null
  /\ bytecode # NullStr
  /\ startsWith(bytecode, "0x044337EA1")
  /\ isFinding(findings.ownerPrivileges, "WARN", 18)

\* C8 as stated: the penalty is 18 only when a blacklist or unBlacklist signal
\* is present (a function name containing 'blacklist', or selector 44337ea1 or
\* 537df3b6 in the bytecode), and 8 when the only owner signals are others.
C8_BlacklistOnlyIsHigh ==
  pc = "done" =>
    LET blacklistSignal ==
          ownerAbiSignals[abi].blacklist \/ ownerBytecodeSignals[bytecode].blacklist
    IN  /\ findings.ownerPrivileges.penalty = 18 => blacklistSignal
        /\ (ownerAnySignal /\ ~blacklistSignal) => findings.ownerPrivileges.penalty = 8

\* C8 amended: the high-risk subset is blacklist, unBlacklist and whitelist:
\* the penalty is 18 exactly when a function name contains 'blacklist' or
\* 'whitelist' or the bytecode contains selector 44337ea1 or 537df3b6, and 8
\* when the only owner signals are others.
C8_BlacklistOrWhitelistIsHigh ==
  pc = "done" =>
    /\ findings.ownerPrivileges.penalty = 18 <=> ownerHighSignal
    /\ (ownerAnySignal /\ ~ownerHighSignal) => findings.ownerPrivileges.penalty = 8

\* a function named for a whitelist, no blacklist name and no owner selector
C8_Witness ==
  /\ pc = "done"
  /\ ownerAbiSignals[abi].whitelist
  /\ ~ownerAbiSignals[abi].blacklist
  /\ ~ownerBytecodeSignals[bytecode].any
  /\ findings.ownerPrivileges.penalty = 18


\* What the Proxy claim speaks of: the explorer's flag, the six proxy selectors,
\* the EIP-1967 slot prefix and the proxy admin.
proxyBytecodeSignals ==
  [bc \in Bytecodes |->
     [selector |-> bytecodeContains(bc, {"3659cfe6", "4f1ef286", "5c60da1b",
                                         "f851a440", "8f283970", "52d1902d"}),
      upgrade  |-> bytecodeContains(bc, {"3659cfe6", "4f1ef286"}),
      slot     |-> bytecodeContains(bc, {"360894a13ba1a321"})]]

proxyFlag == explorerInfo # Null /\ explorerInfo.proxy = TRUE

proxyPresent ==
  \/ proxyFlag
  \/ proxyBytecodeSignals[bytecode].selector
  \/ proxyBytecodeSignals[bytecode].slot

adminNonZero ==
  explorerInfo # Null /\ explorerInfo.proxyAdmin \notin {NullStr, ZERO_ADDRESS}

\* C9: Proxy is Pass with penalty 0 iff explorerInfo.proxy is not true and the
\* bytecode holds none of the six proxy selectors and no EIP-1967 slot prefix;
\* otherwise Warn: with an upgradeTo/upgradeToAndCall selector 15 if proxyAdmin
\* is a non-zero address and 12 if not; without one 12 if proxyAdmin is a
\* non-zero address and 5 otherwise.
C9_ProxyDecisionTable ==
  pc = "done" =>
    /\ findings.proxy.status = "PASS" <=> ~proxyPresent
    /\ ~proxyPresent => findings.proxy.penalty = 0
    /\ proxyPresent =>
         /\ findings.proxy.status = "WARN"
         /\ findings.proxy.penalty =
              IF proxyBytecodeSignals[bytecode].upgrade
              THEN (IF adminNonZero THEN 15 ELSE 12)
              ELSE (IF adminNonZero THEN 12 ELSE 5)

\* upgradeTo in the bytecode and a non-zero proxy admin
C9_Witness ==
  /\ pc = "done"
  /\ proxyBytecodeSignals[bytecode].upgrade
  /\ adminNonZero
  /\ isFinding(findings.proxy, "WARN", 15)

\* C10: VerifiedSource is Pass 0 if explorerInfo.isVerified is true or the ABI
\* is a non-empty list, each alone sufficing; otherwise Warn 10 if explorerInfo
\* is null; otherwise Fail 30.
C10_VerifiedSourceTable ==
  pc = "done" =>
    LET flagged     == explorerInfo # Null /\ explorerInfo.isVerified = TRUE
        nonEmptyAbi == abi # Null /\ Len(abi.items) > 0
    IN  IF flagged \/ nonEmptyAbi
        THEN isFinding(findings.verifiedSource, "PASS", 0)
        ELSE IF explorerInfo = Null
        THEN isFinding(findings.verifiedSource, "WARN", 10)
        ELSE isFinding(findings.verifiedSource, "FAIL", 30)

\* the verification flag with an empty ABI
C10_Witness ==
  /\ pc = "done"
  /\ explorerInfo # Null
  /\ explorerInfo.isVerified = TRUE
  /\ abi # Null
  /\ Len(abi.items) = 0
  /\ isFinding(findings.verifiedSource, "PASS", 0)


isWarnNonZero(f) == f.status = "WARN" /\ f.penalty > 0

\* C11 as stated: whenever bytecode, abi or explorerInfo is absent, every
\* evaluator that reads the absent input returns Warn with a non-zero penalty:
\* VerifiedSource and Proxy for explorerInfo; Proxy, OwnerPrivileges and
\* DangerousFunctions for bytecode; OwnerPrivileges and DangerousFunctions for
\* abi.
C11_MissingInputAlwaysWarn ==
  pc = "done" =>
    /\ explorerInfo = Null =>
         isWarnNonZero(findings.verifiedSource) /\ isWarnNonZero(findings.proxy)
    /\ bytecode = NullStr =>
         /\ isWarnNonZero(findings.proxy)
         /\ isWarnNonZero(findings.ownerPrivileges)
         /\ isWarnNonZero(findings.dangerousFunctions)
    /\ abi = Null =>
         /\ isWarnNonZero(findings.ownerPrivileges)
         /\ isWarnNonZero(findings.dangerousFunctions)

\* C11 amended: an evaluator left with nothing to inspect returns Warn with a
\* non-zero penalty: VerifiedSource (10) when explorerInfo is null,
\* OwnerPrivileges (10) and DangerousFunctions (12) when abi and bytecode are
\* both null. Proxy has no such branch: with explorerInfo and bytecode both
\* null it returns Pass with penalty 0.
C11_NothingToInspectIsWarn ==
  pc = "done" =>
    /\ explorerInfo = Null => isFinding(findings.verifiedSource, "WARN", 10)
    /\ bothAbsent =>
         /\ isFinding(findings.ownerPrivileges, "WARN", 10)
         /\ isFinding(findings.dangerousFunctions, "WARN", 12)
    /\ (explorerInfo = Null /\ bytecode = NullStr) =>
         isFinding(findings.proxy, "PASS", 0)

\* no explorer answer and no bytecode: three inconclusive findings, Proxy Pass
C11_Witness ==
  /\ pc = "done"
  /\ explorerInfo = Null
  /\ bytecode = NullStr
  /\ isWarnNonZero(findings.verifiedSource)
  /\ isWarnNonZero(findings.ownerPrivileges)
  /\ isWarnNonZero(findings.dangerousFunctions)
  /\ findings.proxy.status = "PASS"


\* C12: for every bytecode, every explorerInfo and every value safeParseAbi can
\* deliver as abi, each of the four evaluators returns a Finding and none
\* throws.
C12_NoEvaluatorThrows ==
  pc \in {"done", "threw"} =>
    /\ analyzeVerifiedSource(explorerInfo) # TypeError
    /\ analyzeProxy(explorerInfo, bytecode) # TypeError
    /\ ownerPrivilegesRawOf[abi][bytecode] # TypeError
    /\ dangerousFunctionsRawOf[abi][bytecode] # TypeError
    /\ pc # "threw"


\* every selector any of the three bytecode tables knows
knownSelectors ==
  {DANGEROUS_SELECTORS[i].selector : i \in 1..Len(DANGEROUS_SELECTORS)}
  \cup seqRange(ownerSelectors) \cup seqRange(proxySelectors)

\* per bytecode: the known selectors it holds, and whether it holds anything
\* else an evaluator reacts to (an opcode marker or the EIP-1967 slot prefix)
bytecodeSignalsOf ==
  [bc \in Bytecodes |->
     [selectors |-> {sel \in knownSelectors : bytecodeContains(bc, {sel})},
      other     |-> \/ opcodeMarkersFound(bc) # {}
                    \/ bytecodeContains(bc, {"360894a13ba1a321"})]]

penalisedIndicators ==
  {k \in {"proxy", "ownerPrivileges", "dangerousFunctions"} : findings[k].penalty > 0}

\* C14: a single detected signal (one known selector found in the bytecode, or
\* one ABI function name) contributes a non-zero penalty to at most one
\* indicator: a bytecode whose only known selector is blacklist(address) or
\* pause() is not penalised under both OwnerPrivileges and DangerousFunctions,
\* nor one whose only known selector is upgradeTo(address) under both Proxy and
\* DangerousFunctions.
C14_NoDoubleCounting ==
  (pc = "done" /\ ~proxyFlag /\ ~bytecodeSignalsOf[bytecode].other) =>
    /\ (/\ Cardinality(bytecodeSignalsOf[bytecode].selectors) = 1
        /\ functionNameSet(abi) = {}) =>
         Cardinality(penalisedIndicators) <= 1
    /\ (/\ bytecodeSignalsOf[bytecode].selectors = {}
        /\ Cardinality(functionNameSet(abi)) = 1) =>
         Cardinality(penalisedIndicators) <= 1


\* the reasons of the findings that are not PASS, and the good messages of
\* those that are, in indicator order
reasonOrNothing(k) ==
  IF findings[k].status # "PASS" THEN <<findings[k].reason>> ELSE <<>>

goodMessageOrNothing(k) ==
  IF findings[k].status = "PASS" THEN <<indicatorMetadata[k].goodMessage>> ELSE <<>>

reasonsNotPass ==
  reasonOrNothing("verifiedSource") \o reasonOrNothing("proxy")
  \o reasonOrNothing("ownerPrivileges") \o reasonOrNothing("dangerousFunctions")

goodMessagesOfPass ==
  goodMessageOrNothing("verifiedSource") \o goodMessageOrNothing("proxy")
  \o goodMessageOrNothing("ownerPrivileges") \o goodMessageOrNothing("dangerousFunctions")

\* C15: keyFindings is the list of reasons of the findings that are not PASS,
\* or the single entry 'No critical issues detected.' when there is none;
\* goodSigns is the list of goodMessage of the findings that are PASS, or the
\* single entry 'Insufficient data for positive signals.' when there is none;
\* both lists are non-empty and each finding is in exactly one of them.
C15_SummaryProjection ==
  pc = "done" =>
    /\ summary.keyFindings =
         IF reasonsNotPass = <<>> THEN <<"No critical issues detected.">>
         ELSE reasonsNotPass
    /\ summary.goodSigns =
         IF goodMessagesOfPass = <<>> THEN <<"Insufficient data for positive signals.">>
         ELSE goodMessagesOfPass
    /\ Len(summary.keyFindings) >= 1
    /\ Len(summary.goodSigns) >= 1
    /\ Len(reasonsNotPass) + Len(goodMessagesOfPass) = Cardinality(IndicatorKeys)

\* nothing to report: four PASS findings and the fallback entry in keyFindings
C15_Witness ==
  /\ pc = "done"
  /\ \A k \in IndicatorKeys : findings[k].status = "PASS"
  /\ summary.keyFindings = <<"No critical issues detected.">>
  /\ Len(summary.goodSigns) = 4


\* C16: in token mode and in contract mode the penalty subtracted from 100 is
\* the sum over verifiedSource, proxy, ownerPrivileges and dangerousFunctions
\* only, and the mode and the holder data change neither score nor label.
C16_HoldersNeverScored ==
  pc = "done" =>
    /\ riskScore.score =
         clamp(100 - (findings.verifiedSource.penalty + findings.proxy.penalty
                      + findings.ownerPrivileges.penalty
                      + findings.dangerousFunctions.penalty), 0, 100)
    /\ riskScore.label = scoreToLabel(riskScore.score)
    /\ \A req \in TokenRequests :
         (/\ req.bytecode = bytecode
          /\ req.explorerInfo = explorerInfo
          /\ analyzeTokenOf[req].pc = "done") =>
           analyzeTokenOf[req].riskScore = riskScore

\* token mode, no holder count known, and a score below 100
C16_Witness ==
  /\ pc = "done"
  /\ resolvedKind = "token"
  /\ holders.holderCount = None
  /\ riskScore.score < 100


\* the two scanners, evaluated once per explored bytecode
selectorScan == [bc \in Bytecodes |-> detectSelectorsInBytecode(bc)]

opcodeScan == [bc \in Bytecodes |-> detectDangerousOpcodes(bc)]

\* the same scan on the bytecode written in lower case
selectorScanLower == [bc \in Bytecodes |-> detectSelectorsInBytecode(toLowerCase(bc))]

\* the record the scanners return for a table entry
infoOf(e) == [name |-> e.name, risk |-> e.risk, description |-> e.description]

\* per bytecode: does the selector scan return what the claim says
selectorScanAsStated ==
  [bc \in Bytecodes |->
     LET result == selectorScan[bc]
     IN  /\ \A i \in 1..Len(DANGEROUS_SELECTORS) :
              (\E j \in 1..Len(result) : result[j] = infoOf(DANGEROUS_SELECTORS[i]))
                <=> bytecodeContains(bc, {DANGEROUS_SELECTORS[i].selector})
         /\ \A j, k \in 1..Len(result) : result[j] = result[k] => j = k
         /\ bc \in {NullStr, "0x"} => result = <<>>
         /\ selectorScanLower[bc] = result]

\* C17: detectSelectorsInBytecode returns the entry of a selector iff its
\* lowercase 8-digit form is a substring of the lowercased bytecode hex, at any
\* offset; each matching entry once; nothing for null and for '0x'; and the
\* same for every letter case of the bytecode.
C17_SelectorScan == pc = "done" => selectorScanAsStated[bytecode]

\* the blacklist selector in upper case at an odd offset is found
C17_Witness ==
  /\ pc = "done"
  /\ startsWith(bytecode, "0x044337EA1")
  /\ \E j \in 1..Len(selectorScan[bytecode]) :
       selectorScan[bytecode][j].name = "blacklist(address)"

\* per bytecode: does the opcode scan return what the claim says
opcodeScanAsStated ==
  [bc \in Bytecodes |->
     LET result == opcodeScan[bc]
         names  == {result[j].name : j \in 1..Len(result)}
     IN  /\ "SELFDESTRUCT" \in names <=> bytecodeContains(bc, {"ff"})
         /\ "DELEGATECALL" \in names <=> bytecodeContains(bc, {"f4"})
         /\ "CALLCODE" \in names <=> bytecodeContains(bc, {"f2"})
         /\ names \subseteq {"SELFDESTRUCT", "DELEGATECALL", "CALLCODE"}
         /\ \A j \in 1..Len(result) : result[j].risk = "high"
         /\ bc = NullStr => result = <<>>]

\* whether the bytecode holds the STATICCALL marker, and the DELEGATECALL one
staticcallIn == [bc \in Bytecodes |-> bytecodeContains(bc, {"fa"})]

delegatecallIn == [bc \in Bytecodes |-> bytecodeContains(bc, {"f4"})]

\* C18: detectDangerousOpcodes reports exactly the markers among SELFDESTRUCT
\* (ff), DELEGATECALL (f4) and CALLCODE (f2) whose two digits occur in the
\* lowercased bytecode hex; each reported opcode is High risk; STATICCALL (fa)
\* is never reported; null bytecode yields nothing.
C18_OpcodeScan == pc = "done" => opcodeScanAsStated[bytecode]

\* fa and f4 both in the bytecode: DELEGATECALL alone is reported
C18_Witness ==
  /\ pc = "done"
  /\ staticcallIn[bytecode]
  /\ delegatecallIn[bytecode]
  /\ Len(opcodeScan[bytecode]) = 1
  /\ opcodeScan[bytecode][1].name = "DELEGATECALL"


\* n begins with kw
hasPrefix(n, kw) == Len(n) >= Len(kw) /\ SubSeq(n, 1, Len(kw)) = kw

\* the names an owner-privilege keyword occurs in, and the names that start
\* with a dangerous-function keyword
expectedOwnerMatches ==
  [a \in Abis |->
     {n \in functionNameSet(a) :
        \E kw \in seqRange(OWNER_PRIVILEGE_KEYWORDS) : includes(n, kw)}]

expectedDangerousMatches ==
  [a \in Abis |->
     {n \in functionNameSet(a) :
        \E kw \in seqRange(DANGEROUS_FUNCTION_KEYWORDS) : hasPrefix(n, kw)}]

\* a list of a finding's evidence, empty when the evidence has no such list
evidenceList(f, field) ==
  IF field \in DOMAIN f.evidence THEN f.evidence[field] ELSE <<>>

\* C19: over the lowercased names of the function-type ABI entries, an
\* owner-privilege keyword matches a name it occurs in anywhere, a
\* dangerous-function keyword only a name that starts with it; unwithdrawable
\* gives no DangerousFunctions keyword match, and entries that are not
\* functions never match.
C19_KeywordAsymmetry ==
  pc = "done" =>
    /\ seqRange(evidenceList(findings.ownerPrivileges, "keywordMatches"))
         = expectedOwnerMatches[abi]
    /\ seqRange(evidenceList(findings.dangerousFunctions, "keywordMatches"))
         = expectedDangerousMatches[abi]
    /\ "unwithdrawable" \notin
         seqRange(evidenceList(findings.dangerousFunctions, "keywordMatches"))

\* a function named unwithdrawable and no keyword match in DangerousFunctions
C19_Witness ==
  /\ pc = "done"
  /\ "unwithdrawable" \in functionNameSet(abi)
  /\ evidenceList(findings.dangerousFunctions, "keywordMatches") = <<>>
  /\ evidenceList(findings.ownerPrivileges, "keywordMatches") = <<>>

\* per bytecode: the evidence entries of the selectors and opcode markers in it
detectedEntriesOf ==
  [bc \in Bytecodes |->
     [functions |->
        {[signature   |-> DANGEROUS_SELECTORS[i].name,
          risk        |-> DANGEROUS_SELECTORS[i].risk,
          description |-> DANGEROUS_SELECTORS[i].description] :
           i \in {k \in 1..Len(DANGEROUS_SELECTORS) :
                    bytecodeContains(bc, {DANGEROUS_SELECTORS[k].selector})}},
      opcodes |->
        {[opcode      |-> DANGEROUS_OPCODES[i].name,
          risk        |-> DANGEROUS_OPCODES[i].risk,
          description |-> DANGEROUS_OPCODES[i].description] :
           i \in {k \in 1..Len(DANGEROUS_OPCODES) :
                    /\ DANGEROUS_OPCODES[k].opcode \in {"ff", "f4", "f2"}
                    /\ bytecodeContains(bc, {DANGEROUS_OPCODES[k].opcode})}}]]

somethingDetected ==
  \/ detectedEntriesOf[bytecode].functions # {}
  \/ detectedEntriesOf[bytecode].opcodes # {}
  \/ expectedDangerousMatches[abi] # {}

\* the evidence entries that carry a description, by what they name
describedInEvidence ==
  {[label |-> e.signature, description |-> e.description] :
     e \in seqRange(evidenceList(findings.dangerousFunctions, "detectedFunctions"))}
  \cup
  {[label |-> e.opcode, description |-> e.description] :
     e \in seqRange(evidenceList(findings.dangerousFunctions, "dangerousOpcodes"))}

\* C20 amended: whenever a selector, an opcode or a keyword is detected, the
\* evidence lists every detected selector and every detected opcode, each with
\* its description, and every matched keyword as the lowercased function name
\* (a keyword match has no description), whichever of the penalties 30, 18, 12
\* or 8 was returned.
C20_EvidenceComplete ==
  (pc = "done" /\ somethingDetected) =>
    /\ findings.dangerousFunctions.penalty \in {30, 18, 12, 8}
    /\ seqRange(evidenceList(findings.dangerousFunctions, "detectedFunctions"))
         = detectedEntriesOf[bytecode].functions
    /\ seqRange(evidenceList(findings.dangerousFunctions, "dangerousOpcodes"))
         = detectedEntriesOf[bytecode].opcodes
    /\ seqRange(evidenceList(findings.dangerousFunctions, "keywordMatches"))
         = expectedDangerousMatches[abi]
    /\ \A e \in describedInEvidence : e.description # ""

\* C20 as stated: the evidence lists every detected selector, opcode and
\* matched keyword, each with its human-readable description.
C20_EveryEntryDescribed ==
  (pc = "done" /\ somethingDetected) =>
    /\ seqRange(evidenceList(findings.dangerousFunctions, "detectedFunctions"))
         = detectedEntriesOf[bytecode].functions
    /\ seqRange(evidenceList(findings.dangerousFunctions, "dangerousOpcodes"))
         = detectedEntriesOf[bytecode].opcodes
    /\ \A n \in expectedDangerousMatches[abi] :
         \E e \in describedInEvidence : e.label = n /\ e.description # ""

\* a selector, an opcode and a keyword at once, under the Fail rule
C20_Witness ==
  /\ pc = "done"
  /\ detectedEntriesOf[bytecode].functions # {}
  /\ detectedEntriesOf[bytecode].opcodes # {}
  /\ expectedDangerousMatches[abi] # {}
  /\ findings.dangerousFunctions.penalty = 30
  /\ Len(evidenceList(findings.dangerousFunctions, "keywordMatches")) = 1


\* What the Proxy evidence claim speaks of: per bytecode, the names the
\* evidence gives the proxy selectors found (the table's name, or the selector
\* itself for the two selectors the table does not list).
proxySelectorNamesIn ==
  [bc \in Bytecodes |->
     {IF \E i \in 1..Len(DANGEROUS_SELECTORS) : DANGEROUS_SELECTORS[i].selector = s
      THEN (CHOOSE e \in seqRange(DANGEROUS_SELECTORS) : e.selector = s).name
      ELSE s :
        s \in {t \in {"3659cfe6", "4f1ef286", "5c60da1b", "f851a440", "8f283970",
                      "52d1902d"} : bytecodeContains(bc, {t})}}]

\* the evidence analyzeProxy builds for a bytecode when the explorer says nothing
proxyEvidenceOf == [bc \in Bytecodes |-> analyzeProxy(Null, bc).evidence]

\* per bytecode: the evidence is also the evidence of a bytecode that differs
\* in whether it holds the EIP-1967 slot prefix
slotAmbiguous ==
  [bc \in Bytecodes |->
     \E other \in Bytecodes :
       /\ proxyEvidenceOf[other] = proxyEvidenceOf[bc]
       /\ proxyBytecodeSignals[other].slot # proxyBytecodeSignals[bc].slot]

implementationSupplied == explorerInfo # Null /\ explorerInfo.implementation # NullStr

adminSupplied == explorerInfo # Null /\ explorerInfo.proxyAdmin # NullStr

\* C21 amended: every Proxy finding that is not Pass carries evidence holding
\* the explorer proxy flag, one bytecode flag that is true iff a proxy selector
\* or the EIP-1967 slot prefix was found, the name of each proxy selector found
\* (no list when none was), and the implementation and the admin address
\* exactly when explorerInfo supplies them; the slot has no entry of its own,
\* and a Pass finding carries no evidence.
C21_ProxyEvidence ==
  pc = "done" =>
    LET f == findings.proxy
    IN  /\ ~proxyPresent => f.evidence = Undefined
        /\ proxyPresent =>
             /\ f.evidence # Undefined
             /\ f.evidence.etherscanProxy = proxyFlag
             /\ f.evidence.bytecodeProxyDetected
                  = (proxyBytecodeSignals[bytecode].selector
                       \/ proxyBytecodeSignals[bytecode].slot)
             /\ seqRange(evidenceList(f, "proxySelectors")) = proxySelectorNamesIn[bytecode]
             /\ "proxySelectors" \in DOMAIN f.evidence
                  <=> proxyBytecodeSignals[bytecode].selector
             /\ "implementation" \in DOMAIN f.evidence <=> implementationSupplied
             /\ implementationSupplied =>
                  f.evidence.implementation = explorerInfo.implementation
             /\ "admin" \in DOMAIN f.evidence <=> adminSupplied
             /\ adminSupplied => f.evidence.admin = explorerInfo.proxyAdmin

\* C21 as stated: every Proxy finding carries evidence that identifies the
\* explorer flag, each proxy selector found and the EIP-1967 slot, each
\* distinguishable from the others, and that holds the implementation and
\* admin addresses whenever explorerInfo supplies them.
C21_EverySignalIdentified ==
  pc = "done" =>
    LET f == findings.proxy
    IN  /\ f.evidence # Undefined
        /\ f.evidence.etherscanProxy = proxyFlag
        /\ seqRange(evidenceList(f, "proxySelectors")) = proxySelectorNamesIn[bytecode]
        /\ ~slotAmbiguous[bytecode]
        /\ implementationSupplied => "implementation" \in DOMAIN f.evidence
        /\ adminSupplied => "admin" \in DOMAIN f.evidence

\* the flag, two proxy selectors and the slot prefix at once, both addresses supplied
C21_Witness ==
  /\ pc = "done"
  /\ proxyFlag
  /\ Cardinality(proxySelectorNamesIn[bytecode]) = 2
  /\ proxyBytecodeSignals[bytecode].slot
  /\ implementationSupplied
  /\ adminSupplied
  /\ Len(evidenceList(findings.proxy, "proxySelectors")) = 3


\* C22: runFindings returns exactly one Finding for each of verifiedSource,
\* proxy, ownerPrivileges and dangerousFunctions and no other; each Finding's
\* key is the key it is stored under, and its title, category and explanation
\* are those of indicatorMetadata for that key.
C22_OneFindingPerIndicator ==
  pc = "done" =>
    /\ DOMAIN findings = IndicatorKeys
    /\ \A k \in IndicatorKeys :
         /\ findings[k].key = k
         /\ findings[k].title = indicatorMetadata[k].title
         /\ findings[k].category = indicatorMetadata[k].category
         /\ findings[k].explanation = indicatorMetadata[k].explanation
    /\ \A k1, k2 \in IndicatorKeys :
         findings[k1].title = findings[k2].title => k1 = k2

\* an analysis whose four findings come from four different branches
C22_Witness ==
  /\ pc = "done"
  /\ findings.verifiedSource.status = "FAIL"
  /\ findings.proxy.status = "WARN"
  /\ findings.ownerPrivileges.status = "PASS"
  /\ findings.dangerousFunctions.status = "WARN"
  /\ findings.dangerousFunctions.key = "dangerousFunctions"


\* the penalties the branches of each evaluator hand to buildFinding, by status
SuppliedPenalties ==
  [verifiedSource     |-> [PASS |-> {0}, WARN |-> {10},        FAIL |-> {30}],
   proxy              |-> [PASS |-> {0}, WARN |-> {5, 12, 15}, FAIL |-> {}],
   ownerPrivileges    |-> [PASS |-> {0}, WARN |-> {8, 10, 18}, FAIL |-> {}],
   dangerousFunctions |-> [PASS |-> {0}, WARN |-> {8, 12, 18}, FAIL |-> {30}]]

\* C23: in every Finding of the four evaluators the status is PASS iff the
\* penalty is 0, FAIL implies the penalty is the indicator's maxPenalty and
\* WARN implies a penalty above 0; the penalty is the one the evaluator
\* supplied, the min with maxPenalty in buildFinding leaving it as it was.
C23_StatusPenaltyConsistent ==
  pc = "done" =>
    \A k \in IndicatorKeys :
      LET f == findings[k]
      IN  /\ f.status \in {"PASS", "WARN", "FAIL"}
          /\ f.status = "PASS" <=> f.penalty = 0
          /\ f.status = "FAIL" => f.penalty = indicatorMetadata[k].maxPenalty
          /\ f.status = "WARN" => 0 < f.penalty
          /\ f.penalty \in SuppliedPenalties[k][f.status]
          /\ \A p \in SuppliedPenalties[k][f.status] :
               min(p, indicatorMetadata[k].maxPenalty) = p

\* a Fail at the cap, a Warn at the cap, a Warn below the cap and a Pass
C23_Witness ==
  /\ pc = "done"
  /\ isFinding(findings.verifiedSource, "FAIL", 30)
  /\ isFinding(findings.proxy, "WARN", 15)
  /\ isFinding(findings.dangerousFunctions, "WARN", 18)
  /\ isFinding(findings.ownerPrivileges, "PASS", 0)


\* the selector a one-selector bytecode consists of, as a row of the table
selectorOf(bc) ==
  CHOOSE e \in seqRange(DANGEROUS_SELECTORS) : bc = "0x" \o e.selector

\* the rows of the table whose eight digits hold ff, f4 or f2 at some offset
selectorsHoldingMarker ==
  {e \in seqRange(DANGEROUS_SELECTORS) :
     \E m \in {"ff", "f4", "f2"} : includes(e.selector, m)}

\* C24 amended: for a bytecode that is one selector s of the table and a null
\* ABI, DangerousFunctions is Warn 18 for a High s and Warn 8 for a Medium s
\* when the digits of s hold none of ff, f4 and f2; the digits of 3f4ba83a,
\* f2fde38b, 4f1ef286 and 51cff8d9 do register as an opcode signal as well:
\* Warn 18 for the two Medium ones, Fail 30 for the two High ones.
C24_SingleSelectorVerdict ==
  (pc = "done" /\ bytecode \in SelectorBytecodes /\ abi = Null) =>
    LET s == selectorOf(bytecode)
        f == findings.dangerousFunctions
    IN  /\ {e.selector : e \in selectorsHoldingMarker}
             = {"3f4ba83a", "f2fde38b", "4f1ef286", "51cff8d9"}
        /\ s \notin selectorsHoldingMarker =>
             /\ s.risk = "high" => isFinding(f, "WARN", 18)
             /\ s.risk = "medium" => isFinding(f, "WARN", 8)
             /\ evidenceList(f, "dangerousOpcodes") = <<>>
        /\ s \in selectorsHoldingMarker =>
             /\ s.risk = "high" => isFinding(f, "FAIL", 30)
             /\ s.risk = "medium" => isFinding(f, "WARN", 18)
             /\ Len(evidenceList(f, "dangerousOpcodes")) = 1
        /\ Len(evidenceList(f, "detectedFunctions")) = 1

\* C24 as stated: a bytecode that is one selector of the table is judged as
\* one signal of that selector's tier, Warn 18 for High and Warn 8 for Medium,
\* and the selector's digits never register as an opcode signal.
C24_SelectorNeverAnOpcode ==
  (pc = "done" /\ bytecode \in SelectorBytecodes /\ abi = Null) =>
    LET s == selectorOf(bytecode)
        f == findings.dangerousFunctions
    IN  /\ s.risk = "high" => isFinding(f, "WARN", 18)
        /\ s.risk = "medium" => isFinding(f, "WARN", 8)
        /\ evidenceList(f, "dangerousOpcodes") = <<>>

\* unpause() alone: a Medium selector judged as a High signal through its f4
C24_Witness ==
  /\ pc = "done"
  /\ bytecode = "0x3f4ba83a"
  /\ abi = Null
  /\ isFinding(findings.dangerousFunctions, "WARN", 18)
  /\ Len(evidenceList(findings.dangerousFunctions, "dangerousOpcodes")) = 1


\* per non-null bytecode: its lowercased hex digits, without the 0x
hexOf == [bc \in Bytecodes \ {NullStr} |-> toLowerCase(SubSeq(bc, 3, Len(bc)))]

\* t occurs in s as a run of consecutive characters
occursIn(t, s) == \E i \in 0..(Len(s) - Len(t)) : SubSeq(s, i + 1, i + Len(t)) = t

\* per non-null bytecode: the explored bytecodes whose hex holds its hex
extensionsOf ==
  [bc \in Bytecodes \ {NullStr} |->
     {other \in Bytecodes \ {NullStr} : occursIn(hexOf[bc], hexOf[other])}]

\* the findings of the current ABI and explorerInfo with another bytecode
findingsWith(other) ==
  runFindings([bytecode |-> other, abi |-> abi, explorerInfo |-> explorerInfo])

\* C25: for fixed ABI and explorerInfo and non-null bytecodes b and b', the hex
\* of b a substring of the hex of b', the Proxy, OwnerPrivileges and
\* DangerousFunctions penalties for b' are each at least those for b, and
\* score(b') <= score(b).
C25_MonotoneInBytecode ==
  (pc = "done" /\ bytecode # NullStr) =>
    \A other \in extensionsOf[bytecode] :
      \E fs \in {findingsWith(other)} :
        /\ fs.proxy.penalty >= findings.proxy.penalty
        /\ fs.ownerPrivileges.penalty >= findings.ownerPrivileges.penalty
        /\ fs.dangerousFunctions.penalty >= findings.dangerousFunctions.penalty
        /\ riskScoreOf(fs).score <= riskScore.score

\* a bytecode with a longer one around it that raises all three penalties
C25_Witness ==
  /\ pc = "done"
  /\ bytecode = "0x8456cb59"
  /\ findings.ownerPrivileges.penalty = 8
  /\ \E other \in extensionsOf[bytecode] :
       \E fs \in {findingsWith(other)} :
         /\ fs.proxy.penalty > findings.proxy.penalty
         /\ fs.ownerPrivileges.penalty > findings.ownerPrivileges.penalty
         /\ fs.dangerousFunctions.penalty > findings.dangerousFunctions.penalty
         /\ riskScoreOf(fs).score < riskScore.score


\* the explorer answers without an ABI
InfosWithoutAbi == {info \in ExplorerInfos : info = Null \/ info.abi = Null}

\* the penalties each evaluator returns over the explored inputs
penaltyValues ==
  [verifiedSource |-> {analyzeVerifiedSource(info).penalty : info \in ExplorerInfos},
   proxy |-> UNION {{analyzeProxy(info, bc).penalty : bc \in Bytecodes} :
                      info \in InfosWithoutAbi},
   ownerPrivileges |-> UNION {{ownerPrivilegesOf[a][bc].penalty : bc \in Bytecodes} :
                                a \in Abis},
   dangerousFunctions |-> UNION {{dangerousFunctionsOf[a][bc].penalty : bc \in Bytecodes} :
                                   a \in Abis}]

\* C26: the total penalty never exceeds 93 = 30 + 15 + 18 + 30, so the score
\* lies in 7..100 and the lower clamp at 0 never takes effect; the penalties
\* take the values {0,10,30} for VerifiedSource, {0,5,12,15} for Proxy,
\* {0,8,10,18} for OwnerPrivileges and {0,8,12,18,30} for DangerousFunctions.
C26_PenaltyTotalAtMost93 ==
  /\ pc = "done" =>
       /\ totalPenaltyOf(findings) <= 93
       /\ riskScore.score \in 7..100
       /\ riskScore.score = 100 - totalPenaltyOf(findings)
       /\ findings.verifiedSource.penalty \in {0, 10, 30}
       /\ findings.proxy.penalty \in {0, 5, 12, 15}
       /\ findings.ownerPrivileges.penalty \in {0, 8, 10, 18}
       /\ findings.dangerousFunctions.penalty \in {0, 8, 12, 18, 30}
  /\ penaltyValues.verifiedSource = {0, 10, 30}
  /\ penaltyValues.proxy = {0, 5, 12, 15}
  /\ penaltyValues.ownerPrivileges = {0, 8, 10, 18}
  /\ penaltyValues.dangerousFunctions = {0, 8, 12, 18, 30}

\* score 7: explorerInfo present and unverified, carrying no ABI, a non-zero
\* proxyAdmin, an upgradeTo and a blacklist selector in the bytecode
C26_Witness ==
  /\ pc = "done"
  /\ explorerInfo # Null
  /\ ~explorerInfo.isVerified
  /\ explorerInfo.abi = Null
  /\ adminNonZero
  /\ bytecodeContains(bytecode, {"3659cfe6"})
  /\ bytecodeContains(bytecode, {"44337ea1"})
  /\ totalPenaltyOf(findings) = 93
  /\ riskScore.score = 7


\* a request the effect has replaced by a newer one, or left behind at the unmount
superseded(i) == i < Len(requests) \/ ~mounted

\* every superseded request is marked cancelled and aborted, and the one
\* request that may not be is the newest, started with the dependencies of
\* the effect's last run
supersededAreCancelled ==
  \A i \in 1..Len(requests) :
    /\ superseded(i) => requests[i].cancelled /\ requests[i].aborted
    /\ ~requests[i].cancelled => i = Len(requests) /\ requests[i].deps = effectDeps
    /\ requests[i].phase = "dropped" => requests[i].cancelled

\* the newest request has run to its end without being cancelled
newestCompleted ==
  /\ requests # <<>>
  /\ requests[Len(requests)].phase = "applied"

\* after the newest request completed: not loading, and the analysis on
\* success or the error on failure, never both and never neither
newestIsDisplayed ==
  newestCompleted =>
    LET r == requests[Len(requests)]
    IN  /\ isLoading = FALSE
        /\ (analysis # Null) # (error # NullStr)
        /\ r.outcome = "ok" => analysis = payloadOf(r.deps) /\ error = NullStr
        /\ r.outcome = "failed" => analysis = Null /\ error = errorMessageOf(r.deps)

\* a step in which a cancelled request settles
cancelledSettles ==
  \E i \in 1..Len(requests) :
    /\ requests[i].cancelled
    /\ requests[i].phase = "pending"
    /\ requests'[i].phase # "pending"

\* C27: a response or failure of a superseded request never changes the
\* displayed state: once the address, the chain or the mode changed and the
\* effect ran again, or the component unmounted, the earlier request is
\* aborted and marked cancelled, and its settling, in any interleaving with
\* the newer request, sets none of analysis, error and isLoading; once the
\* newest request completes, isLoading is false and exactly one of analysis
\* (on success) and error (on failure) is non-null.
C27_SupersededNeverDisplayed ==
  /\ [](supersededAreCancelled /\ newestIsDisplayed)
  /\ [][cancelledSettles => UNCHANGED <<analysis, error, isLoading>>]_vars

\* the first request answered successfully after it was superseded, the
\* second one failed: the error is shown and the late analysis is not
C27_Witness ==
  /\ Len(requests) = 2
  /\ requests[1].phase = "dropped"
  /\ requests[1].outcome = "ok"
  /\ requests[2].phase = "applied"
  /\ requests[2].outcome = "failed"
  /\ analysis = Null
  /\ error # NullStr
  /\ isLoading = FALSE


\* the keys HomeClient walks to build its table of findings
INDICATOR_ORDER ==
  <<"verifiedSource", "proxy", "ownerPrivileges", "dangerousFunctions",
    "liquidity", "holderDistribution">>

\* the titles of INDICATOR_COPY
INDICATOR_COPY ==
  [verifiedSource     |-> [title |-> "Verified Source"],
   proxy              |-> [title |-> "Proxy / Upgradeable"],
   ownerPrivileges    |-> [title |-> "Owner Privileges"],
   dangerousFunctions |-> [title |-> "Dangerous Functions"],
   liquidity          |-> [title |-> "Liquidity Status"],
   holderDistribution |-> [title |-> "Holder Distribution"]]

backendStatusToClient(status) ==
  IF status = "PASS" THEN "pass" ELSE IF status = "FAIL" THEN "fail" ELSE "warn"

\* securityRows of HomeClient for the findings of a response: reading
\* finding.category of a key the map lacks raises a TypeError
securityRows(fs) ==
  IF \E i \in 1..Len(INDICATOR_ORDER) : INDICATOR_ORDER[i] \notin DOMAIN fs
  THEN TypeError
  ELSE [rows |->
          [i \in 1..Len(INDICATOR_ORDER) |->
             [title       |-> INDICATOR_COPY[INDICATOR_ORDER[i]].title,
              category    |-> fs[INDICATOR_ORDER[i]].category,
              description |-> fs[INDICATOR_ORDER[i]].reason,
              status      |-> backendStatusToClient(fs[INDICATOR_ORDER[i]].status)]]]

\* C28: each of the six keys the client walks (verifiedSource, proxy,
\* ownerPrivileges, dangerousFunctions, liquidity, holderDistribution) is in
\* the findings of every successful response of analyzeContract, so the
\* client's reading of category, reason and status is defined for each.
C28_ClientKeysPresent ==
  pc = "done" =>
    /\ \A i \in 1..Len(INDICATOR_ORDER) : INDICATOR_ORDER[i] \in DOMAIN findings
    /\ securityRows(findings) # TypeError


\* the summaries of the successful calls made, in order
successfulSummaries ==
  SelectSeq([i \in 1..Len(geminiCalls) |-> geminiCalls[i]], LAMBDA c : c.success)

\* C29: with an API key and non-blank source code the handler calls Gemini
\* at least once and at most three times, one after the other; a later call
\* is made only if every earlier call failed; each retry sends a source text
\* strictly shorter than the first attempt's; the summary of the response is
\* that of the first successful call, or the fixed fallback sentence when
\* every call made failed, and is never empty.
C29_RetriesShorterThanFirst ==
  /\ Len(geminiCalls) <= 3
  /\ insightsPc \in {"attempt2", "attempt3", "respond", "responded"} =>
       Len(geminiCalls) >= 1
  /\ \A i \in 2..Len(geminiCalls) :
       /\ \A j \in 1..(i - 1) : ~geminiCalls[j].success
       /\ geminiCalls[i].sent < geminiCalls[1].sent
  /\ insightsResponse.status = 200 =>
       /\ insightsResponse.summary # ""
       /\ insightsResponse.summary =
            IF successfulSummaries # <<>> THEN successfulSummaries[1].summary
            ELSE FALLBACK_SUMMARY


---------------------------------------------------------------------------
(* C30: validation and mode resolution of analyzeContract, and the status  *)
(* the analyze route answers with.                                         *)

\* the request has an input that reached analyzeContract
hasInput == request.via = "call" \/ (request.via = "POST" /\ request.body.parses)

inputOfRequest ==
  IF request.via = "call" THEN request.input ELSE inputOfBody(request.body)

SupportedChainNames ==
  {"eth", "ethereum", "base", "polygon", "matic", "bsc", "bnb", "scroll", "arbitrum"}

\* a chain name is given and is none of the supported ones in any casing
unsupportedChain ==
  /\ inputOfRequest.chain # ""
  /\ toLowerCase(inputOfRequest.chain) \notin SupportedChainNames

invalidAddress == ~isAddress(inputOfRequest.address)

requestedMode ==
  IF inputOfRequest.addressType = NullStr THEN "auto"
  ELSE IF toLowerCase(inputOfRequest.addressType) \in {"token", "contract"}
       THEN toLowerCase(inputOfRequest.addressType)
       ELSE "auto"

\* a name, a symbol, a decimals count, or a total supply: the explorer's, or
\* the on-chain one in the units its decimals give
someTokenEvidence ==
  \/ request.reads.name \notin {NullStr, ""}
  \/ request.reads.symbol \notin {NullStr, ""}
  \/ request.reads.decimals # None
  \/ request.reads.profileTotalSupply \notin {NullStr, ""}
  \/ (request.reads.totalSupply # None /\ request.reads.decimals # None)

noBytecode == request.reads.bytecode \in {NullStr, "0x"}

rejectedWith(status) ==
  /\ thrown = [name |-> "AnalyzerError", message |-> thrown.message, statusCode |-> status]
  /\ pc \in {"threw", "responded"}

resolvedAs(kind) ==
  /\ thrown = NoError
  /\ resolvedKind = kind

\* the input passed validation and the chain is configured
passedValidation ==
  /\ hasInput
  /\ ~unsupportedChain
  /\ ~invalidAddress
  /\ request.reads.explorerApiKey

====
